---- MODULE Spec2Model ----
(***************************************************************************)
(* Notification routing and delivery-reliability engine of the CropFresh   *)
(* notification service: event dispatcher (idempotent ingestion), router   *)
(* (sendNotification), preference evaluator, SMS channel (quota, retry)    *)
(* and push channel (fan-out, invalid-token pruning).                      *)
(*                                                                         *)
(* Every asynchronous function is cut at its awaits: one action per        *)
(* awaited storage or provider call, so that concurrent calls interleave   *)
(* exactly where the single-threaded event loop lets them.                 *)
(***************************************************************************)
EXTENDS Integers, Sequences, FiniteSets, TLC

(***************************************************************************)
(* Bounds of the model                                                     *)
(***************************************************************************)
\* concurrent / successive calls tracked in one run
MaxCalls == 2
\* distinct business events (eventId values)
MaxEvents == 1
\* storage-collaborator failures (rejected prisma promises) injected per run of the
\* dispatcher, the router and the SMS channel specification
MaxFaults == 1
RouterFaults == 2
SmsFaults == 1
\* process restarts (the in-memory processed set is lost)
MaxRestarts == 1
\* direct sendNotification calls per run of the router specification
RouterCalls == 1

(***************************************************************************)
(* Program constants                                                       *)
(***************************************************************************)
MAX_CACHE_SIZE == 10000
EVICT_COUNT == 1000
maxRetries == 3
dailyQuota == 20
retryDelays == <<1000, 5000, 15000>>

Farmers == {"f1", "f2"}
Tokens == {"t1", "t2"}
Calls == 1..MaxCalls
EventIds == 1..MaxEvents

TemplateTypes ==
    {"ORDER_MATCHED", "PAYMENT_RECEIVED", "MATCH_EXPIRING", "ORDER_CANCELLED",
     "QUALITY_DISPUTE", "HAULER_EN_ROUTE", "PICKUP_COMPLETE", "DELIVERED",
     "DROP_POINT_ASSIGNMENT", "DROP_POINT_CHANGE", "ORDER_CONFIRMATION",
     "DELIVERY_REMINDER", "MATCH_EXPIRED", "EDUCATIONAL_CONTENT", "OTP"}

CRITICAL_TYPES ==
    {"ORDER_MATCHED", "PAYMENT_RECEIVED", "MATCH_EXPIRING", "ORDER_CANCELLED",
     "QUALITY_DISPUTE"}

TYPE_CATEGORY(type) ==
    CASE type = "PAYMENT_RECEIVED" -> "payment"
      [] type = "EDUCATIONAL_CONTENT" -> "educational"
      [] OTHER -> "order"

\* the dispatcher's handler table: what each handler passes to the router.
\*   type      the TemplateType of the router call
\*   phone     the handler passes event.phoneNumber
\*   eventMeta the metadata handed to the router holds event_id
\*   forceSms  the handler sets forceSms
EventTypes ==
    {"ORDER_MATCHED", "PAYMENT_RECEIVED", "MATCH_EXPIRING", "ORDER_CANCELLED",
     "HAULER_EN_ROUTE", "PICKUP_COMPLETE", "ORDER_DELIVERED", "DROP_POINT_ASSIGNED"}

handleOrderMatched ==
    [type |-> "ORDER_MATCHED", phone |-> TRUE, eventMeta |-> FALSE, forceSms |-> FALSE]
handlePaymentReceived ==
    [type |-> "PAYMENT_RECEIVED", phone |-> TRUE, eventMeta |-> FALSE, forceSms |-> FALSE]
handleMatchExpiring ==
    [type |-> "MATCH_EXPIRING", phone |-> TRUE, eventMeta |-> FALSE, forceSms |-> FALSE]
handleOrderCancelled ==
    [type |-> "ORDER_CANCELLED", phone |-> TRUE, eventMeta |-> TRUE, forceSms |-> TRUE]
handleHaulerEnRoute ==
    [type |-> "HAULER_EN_ROUTE", phone |-> FALSE, eventMeta |-> FALSE, forceSms |-> FALSE]
handlePickupComplete ==
    [type |-> "PICKUP_COMPLETE", phone |-> FALSE, eventMeta |-> TRUE, forceSms |-> FALSE]
handleOrderDelivered ==
    [type |-> "DELIVERED", phone |-> FALSE, eventMeta |-> TRUE, forceSms |-> FALSE]
handleDropPointAssigned ==
    [type |-> "DROP_POINT_ASSIGNMENT", phone |-> FALSE, eventMeta |-> FALSE, forceSms |-> FALSE]

\* an event type outside the EventType union, as an untyped caller can pass it
UnknownEventType == "ORDER_REFUNDED"
\* the default branch of the switch: no handler runs
NoHandler == [type |-> "-", phone |-> FALSE, eventMeta |-> FALSE, forceSms |-> FALSE]

\* a dispatcher whose default branch would fall back to the order-matched handler
dispatchEvent_DefaultHandler(eventType) ==
    CASE eventType = "PAYMENT_RECEIVED" -> handlePaymentReceived
      [] eventType = "MATCH_EXPIRING" -> handleMatchExpiring
      [] eventType = "ORDER_CANCELLED" -> handleOrderCancelled
      [] eventType = "HAULER_EN_ROUTE" -> handleHaulerEnRoute
      [] eventType = "PICKUP_COMPLETE" -> handlePickupComplete
      [] eventType = "ORDER_DELIVERED" -> handleOrderDelivered
      [] eventType = "DROP_POINT_ASSIGNED" -> handleDropPointAssigned
      [] OTHER -> handleOrderMatched

dispatchEvent(eventType) ==
    CASE eventType = "ORDER_MATCHED" -> handleOrderMatched
      [] eventType = "PAYMENT_RECEIVED" -> handlePaymentReceived
      [] eventType = "MATCH_EXPIRING" -> handleMatchExpiring
      [] eventType = "ORDER_CANCELLED" -> handleOrderCancelled
      [] eventType = "HAULER_EN_ROUTE" -> handleHaulerEnRoute
      [] eventType = "PICKUP_COMPLETE" -> handlePickupComplete
      [] eventType = "ORDER_DELIVERED" -> handleOrderDelivered
      [] eventType = "DROP_POINT_ASSIGNED" -> handleDropPointAssigned
      [] OTHER -> NoHandler

(***************************************************************************)
(* Preference evaluator (pure part)                                        *)
(***************************************************************************)
NoPrefs == [absent |-> TRUE]

\* the record findByFarmerId creates on first read
DefaultPreferences ==
    [smsEnabled |-> TRUE, pushEnabled |-> TRUE,
     quietHoursStart |-> <<22, 0>>, quietHoursEnd |-> <<6, 0>>,
     quietHoursEnabled |-> TRUE, notificationLevel |-> "ALL",
     orderUpdates |-> TRUE, paymentAlerts |-> TRUE, educationalContent |-> TRUE]

\* "HH:MM".split(':').map(Number) -> hours * 60 + mins
ToMinutes(hhmm) == hhmm[1] * 60 + hhmm[2]

\* a window test that would ignore windows wrapping midnight
QuietHoursActive_NoWrap(preferences, now) ==
    IF ~preferences.quietHoursEnabled THEN FALSE
    ELSE now >= ToMinutes(preferences.quietHoursStart)
            /\ now < ToMinutes(preferences.quietHoursEnd)

\* isQuietHoursActive, after the preferences were read; now = minutes since midnight
QuietHoursActive(preferences, now) ==
    IF ~preferences.quietHoursEnabled THEN FALSE
    ELSE LET startMinutes == ToMinutes(preferences.quietHoursStart)
             endMinutes == ToMinutes(preferences.quietHoursEnd)
         IN IF startMinutes > endMinutes
            THEN now >= startMinutes \/ now < endMinutes
            ELSE now >= startMinutes /\ now < endMinutes

\* a category switch that would never consult paymentAlerts
categoryAllowed_PaymentAlwaysOn(preferences, category) ==
    CASE category = "order" -> preferences.orderUpdates
      [] category = "payment" -> TRUE
      [] category = "educational" -> preferences.educationalContent

categoryAllowed(preferences, category) ==
    CASE category = "order" -> preferences.orderUpdates
      [] category = "payment" -> preferences.paymentAlerts
      [] category = "educational" -> preferences.educationalContent

\* gates in which MUTE would spare critical notifications
GateBlocked_MuteSparesCritical(preferences, isCritical, category) ==
    \/ preferences.notificationLevel = "MUTE" /\ ~isCritical
    \/ preferences.notificationLevel = "CRITICAL" /\ ~isCritical
    \/ ~categoryAllowed(preferences, category) /\ ~isCritical

\* gates without the CRITICAL-level gate
GateBlocked_NoLevelGate(preferences, isCritical, category) ==
    \/ preferences.notificationLevel = "MUTE"
    \/ ~categoryAllowed(preferences, category) /\ ~isCritical

\* the three early returns of shouldSendNotification
GateBlocked(preferences, isCritical, category) ==
    \/ preferences.notificationLevel = "MUTE"
    \/ preferences.notificationLevel = "CRITICAL" /\ ~isCritical
    \/ ~categoryAllowed(preferences, category) /\ ~isCritical

\* a final decision that would permit SMS for non-critical notifications too
ChannelDecision_SmsForAll(preferences, isCritical, isQuietHours) ==
    [sms |-> preferences.smsEnabled,
     push |-> preferences.pushEnabled /\ (~isQuietHours \/ isCritical)]

\* the final return of shouldSendNotification
ChannelDecision(preferences, isCritical, isQuietHours) ==
    [sms |-> preferences.smsEnabled /\ isCritical,
     push |-> preferences.pushEnabled /\ (~isQuietHours \/ isCritical)]

(***************************************************************************)
(* State                                                                   *)
(***************************************************************************)
VARIABLES
    calls,                          \* the calls in flight or finished, one record per call
    processedEvents,                \* the in-memory Set<string>, in insertion order
    farmerNotification,             \* prisma.farmerNotification (InAppNotification rows)
    farmerNotificationPreferences,  \* prisma.farmerNotificationPreferences, one row per farmer
    deviceToken,                    \* prisma.deviceToken, keyed by <<farmerId, fcmToken>>
    smsDeliveryLog,                 \* prisma.smsDeliveryLog, row id = index
    eventSource,                    \* the upstream events: eventId -> event type
    clock,                          \* local time of day, minutes since midnight
    smsErrors,                      \* the error messages the SMS provider fails with
    faults,                         \* storage failures that may still be injected
    restarts                        \* process restarts so far

vars == <<calls, processedEvents, farmerNotification, farmerNotificationPreferences,
          deviceToken, smsDeliveryLog, eventSource, clock, smsErrors, faults,
          restarts>>

stores == <<farmerNotification, farmerNotificationPreferences, deviceToken, smsDeliveryLog>>
env == <<eventSource, clock, smsErrors, restarts>>

Range(seq) == {seq[i] : i \in 1..Len(seq)}

NoResult == [success |-> FALSE, messageId |-> 0, error |-> "-"]
NoPush == [success |-> FALSE, successCount |-> 0, failureCount |-> 0, invalidTokens |-> {}]

\* the statistics of getDeliveryStats before any of its counts has resolved
NoStats == [today |-> -1, todayDelivered |-> -1, todayFailed |-> -1, remaining |-> -1]

\* a call slot that has not been used yet
IdleCall ==
    [kind |-> "none", pc |-> "idle",
     \* request
     eventId |-> 0, eventType |-> "-", farmerId |-> "f1", phone |-> FALSE,
     type |-> "OTP", forceSms |-> FALSE, eventMeta |-> FALSE, bypassQuietHours |-> FALSE,
     \* sendNotification locals
     isCritical |-> FALSE, category |-> "order", phase |-> "-", preferences |-> NoPrefs,
     isQuietHours |-> FALSE,
     shouldSendSms |-> FALSE, shouldSendPush |-> FALSE, notification |-> 0,
     smsResult |-> NoResult, pushResult |-> NoPush,
     \* sendSms locals
     logId |-> 0, attempt |-> 0, lastError |-> "-", messageId |-> 0,
     \* sendToFarmer locals
     tokens |-> {}, pending |-> {}, results |-> <<>>,
     \* arguments of a repository call
     id |-> 0, days |-> 0, token |-> "-", input |-> <<>>, count |-> 0,
     \* arguments and result of a template call
     template |-> <<>>, variables |-> <<>>, code |-> <<>>, message |-> <<>>,
     language |-> "-", lang |-> "-",
     \* result of getDeliveryStats
     stats |-> NoStats,
     \* how the call ended
     outcome |-> "none", ret |-> FALSE, success |-> FALSE,
     \* history of the call (observations, read by no action)
     decided |-> FALSE, stored |-> "no", created |-> 0, rejected |-> "no",
     lookupFailed |-> FALSE,
     smsInvoked |-> FALSE, pushInvoked |-> FALSE, quotaCount |-> -1,
     inFlight |-> 0, attempts |-> <<>>, slept |-> <<>>, sends |-> 0,
     raisedBy |-> "-", marked |-> FALSE,
     prior |-> {}, epoch |-> 0]

Finished(d) == calls[d].outcome # "none"
Started(d) == calls[d].kind # "none"
\* call slots are used in order
NextSlot(c) == Started(c) = FALSE /\ \A d \in Calls : d < c => Started(d)

(***************************************************************************)
(* Idempotency cache                                                       *)
(***************************************************************************)
\* processedEvents.add(eventId); over the cap, delete entries.slice(0, 1000)
\* a cleanup that would remove only as many entries as exceed the cap
markEventProcessed_TrimsToCap(cache, eventId) ==
    LET added == IF eventId \in Range(cache) THEN cache ELSE Append(cache, eventId)
    IN IF Len(added) > MAX_CACHE_SIZE
       THEN SubSeq(added, Len(added) - MAX_CACHE_SIZE + 1, Len(added))
       ELSE added

markEventProcessed(cache, eventId) ==
    LET added == IF eventId \in Range(cache) THEN cache ELSE Append(cache, eventId)
    IN IF Len(added) > MAX_CACHE_SIZE
       THEN SubSeq(added, (IF EVICT_COUNT < Len(added) THEN EVICT_COUNT ELSE Len(added)) + 1,
                   Len(added))
       ELSE added

\* the durable lookup of isEventProcessed: findFirst where metadata.event_id = eventId
DurableLookup(eventId) == \E n \in farmerNotification : n.event_id = eventId

(***************************************************************************)
(* Control flow of sendNotification between its awaits                     *)
(***************************************************************************)
\* an exception leaves sendNotification (or sendSms / sendToFarmer called alone);
\* a dispatcher handler catches it, logs and returns false without marking
Raise(k, where) ==
    IF k.kind = "dispatch"
    THEN [k EXCEPT !.pc = "done", !.outcome = "returned", !.ret = FALSE,
                   !.raisedBy = where, !.inFlight = 0]
    ELSE [k EXCEPT !.pc = "done", !.outcome = "raised", !.raisedBy = where,
                   !.inFlight = 0]

\* sendToFarmer returned r: back in sendNotification (or the caller of sendToFarmer)
AfterPush(k, r) == [k EXCEPT !.pushResult = r, !.pc = "return"]

\* a push entry that would check quiet hours for critical notifications as well
PushEntry_AlwaysChecksQuiet(k) ==
    [k EXCEPT !.pushInvoked = TRUE, !.phase = "pushQuiet", !.pc = "prefFind"]

\* pushService.sendToFarmer is called: quiet hours first, unless bypassed
PushEntry(k) ==
    IF ~k.bypassQuietHours
    THEN [k EXCEPT !.pushInvoked = TRUE, !.phase = "pushQuiet", !.pc = "prefFind"]
    ELSE [k EXCEPT !.pushInvoked = TRUE, !.pc = "pushTokens"]

\* sendSms returned r: if (shouldSendPush) sendToFarmer, else build the result
AfterSms(k, r) ==
    LET k1 == [k EXCEPT !.smsResult = r]
    IN IF k.kind = "sms" THEN [k1 EXCEPT !.pc = "return"]
       ELSE IF k.shouldSendPush THEN PushEntry(k1)
       ELSE [k1 EXCEPT !.pc = "return"]

\* a router that would text every notification that comes with a phone number
AfterStore_SmsWheneverPhone(k) ==
    IF k.phone
    THEN [k EXCEPT !.smsInvoked = TRUE, !.pc = "smsQuota"]
    ELSE IF k.shouldSendPush THEN PushEntry(k)
    ELSE [k EXCEPT !.pc = "return"]

\* storeNotification returned: if (shouldSendSms && phoneNumber) sendSms ...
AfterStore(k) ==
    IF k.shouldSendSms /\ k.phone
    THEN [k EXCEPT !.smsInvoked = TRUE, !.pc = "smsQuota"]
    ELSE IF k.shouldSendPush THEN PushEntry(k)
    ELSE [k EXCEPT !.pc = "return"]

\* a router that would skip the in-app store when the decision permits no channel
AfterDecision_SkipsStoreWhenSilent(k, d) ==
    IF ~d.sms /\ ~d.push
    THEN [k EXCEPT !.shouldSendSms = FALSE, !.shouldSendPush = FALSE,
                   !.decided = TRUE, !.pc = "return"]
    ELSE [k EXCEPT !.shouldSendSms = d.sms, !.shouldSendPush = d.push,
                   !.decided = TRUE, !.pc = "store"]

\* shouldSendNotification returned decision d
AfterDecision(k, d) ==
    IF k.kind = "should"
    THEN [k EXCEPT !.shouldSendSms = d.sms, !.shouldSendPush = d.push,
                   !.decided = TRUE, !.pc = "done", !.outcome = "returned"]
    ELSE [k EXCEPT !.shouldSendSms = d.sms, !.shouldSendPush = d.push,
                   !.decided = TRUE, !.pc = "store"]

\* findByFarmerId returned preferences p, in the phase the call is in
AfterPrefs(k, p) ==
    CASE k.phase = "should" ->
            IF GateBlocked(p, k.isCritical, k.category)
            THEN AfterDecision(k, [sms |-> FALSE, push |-> FALSE])
            ELSE [k EXCEPT !.preferences = p, !.phase = "quiet", !.pc = "prefFind"]
      [] k.phase = "quiet" ->
            AfterDecision([k EXCEPT !.isQuietHours = QuietHoursActive(p, clock)],
                          ChannelDecision(k.preferences, k.isCritical,
                                          QuietHoursActive(p, clock)))
      [] k.phase = "isQuiet" ->
            [k EXCEPT !.isQuietHours = QuietHoursActive(p, clock), !.pc = "done",
                      !.outcome = "returned", !.ret = QuietHoursActive(p, clock)]
      [] k.phase = "pushQuiet" ->
            IF QuietHoursActive(p, clock)
            THEN AfterPush(k, [success |-> TRUE, successCount |-> 0,
                               failureCount |-> 0, invalidTokens |-> {}])
            ELSE [k EXCEPT !.pc = "pushTokens"]

\* sendNotification is entered: isCritical, then shouldSendNotification -> findUnique
RouterEntry(k) ==
    [k EXCEPT !.isCritical = (k.type \in CRITICAL_TYPES) \/ k.forceSms,
              !.bypassQuietHours = (k.type \in CRITICAL_TYPES) \/ k.forceSms,
              !.category = TYPE_CATEGORY(k.type),
              !.phase = "should", !.pc = "prefFind"]

(***************************************************************************)
(* Event dispatcher                                                        *)
(***************************************************************************)
\* dispatchEvent(eventType, payload) is called. The handler runs synchronously up to
\* its first await: processedEvents.has(eventId) is read at call time. A hit makes
\* the handler return false; a miss issues the durable lookup. An event type without
\* a handler is logged and answered with false.
Dispatch(c, eventId) ==
    /\ NextSlot(c)
    /\ LET h == dispatchEvent(eventSource[eventId])
           k == [calls[c] EXCEPT !.kind = "dispatch", !.eventId = eventId,
                                 !.eventType = eventSource[eventId],
                                 !.farmerId = "f1", !.type = h.type, !.phone = h.phone,
                                 !.eventMeta = h.eventMeta, !.forceSms = h.forceSms,
                                 !.prior = {d \in Calls : Finished(d)},
                                 !.epoch = restarts]
       IN calls' = [calls EXCEPT ![c] =
                IF h = NoHandler
                THEN [k EXCEPT !.pc = "done", !.outcome = "returned", !.ret = FALSE,
                               !.rejected = "unknown"]
                ELSE IF eventId \in Range(processedEvents)
                THEN [k EXCEPT !.pc = "done", !.outcome = "returned", !.ret = FALSE,
                               !.rejected = "memory"]
                ELSE [k EXCEPT !.pc = "findFirst"]]
    /\ UNCHANGED <<processedEvents, stores, env, faults>>

\* a durable lookup that would refresh the in-memory set when it finds the row
FindFirst_MarksOnHit(c) ==
    /\ calls[c].pc = "findFirst"
    /\ IF DurableLookup(calls[c].eventId)
       THEN /\ calls' = [calls EXCEPT ![c] =
                    [@ EXCEPT !.pc = "done", !.outcome = "returned", !.ret = FALSE,
                              !.rejected = "durable"]]
            /\ processedEvents' = markEventProcessed(processedEvents, calls[c].eventId)
       ELSE /\ calls' = [calls EXCEPT ![c] = RouterEntry(@)]
            /\ UNCHANGED processedEvents
    /\ UNCHANGED <<stores, env, faults>>

\* isEventProcessed, the durable lookup: an existing row rejects the event; a failed
\* query is swallowed (assume not processed). Otherwise the handler calls the router.
FindFirst(c) ==
    /\ calls[c].pc = "findFirst"
    /\ \/ /\ calls' = [calls EXCEPT ![c] =
                IF DurableLookup(calls[c].eventId)
                THEN [@ EXCEPT !.pc = "done", !.outcome = "returned", !.ret = FALSE,
                               !.rejected = "durable"]
                ELSE RouterEntry(@)]
          /\ UNCHANGED faults
       \/ /\ faults > 0
          /\ faults' = faults - 1
          /\ calls' = [calls EXCEPT ![c] = RouterEntry([@ EXCEPT !.lookupFailed = TRUE])]
    /\ UNCHANGED <<processedEvents, stores, env>>

\* the process restarts between calls: the in-memory processed set is lost
Restart ==
    /\ restarts < MaxRestarts
    /\ \A d \in Calls : Started(d) => Finished(d)
    /\ \E d \in Calls : Finished(d)
    /\ \E d \in Calls : ~Started(d)
    /\ processedEvents' = <<>>
    /\ restarts' = restarts + 1
    /\ UNCHANGED <<calls, stores, eventSource, clock, smsErrors, faults>>

(***************************************************************************)
(* Router: sendNotification                                                *)
(***************************************************************************)
\* sendNotification(params) called directly (gRPC SendFarmerNotification)
SendNotification(c, farmerId, type, phone, forceSms) ==
    /\ NextSlot(c)
    /\ calls' = [calls EXCEPT ![c] =
            RouterEntry([@ EXCEPT !.kind = "send", !.farmerId = farmerId, !.type = type,
                                  !.phone = phone, !.forceSms = forceSms,
                                  !.prior = {d \in Calls : Finished(d)},
                                  !.epoch = restarts])]
    /\ UNCHANGED <<processedEvents, stores, env, faults>>

\* preferencesRepository.shouldSendNotification(farmerId, isCritical, category)
\* called on its own
ShouldSendNotification(c, farmerId, isCritical, category) ==
    /\ NextSlot(c)
    /\ calls' = [calls EXCEPT ![c] =
            [@ EXCEPT !.kind = "should", !.farmerId = farmerId,
                      !.isCritical = isCritical, !.category = category,
                      !.phase = "should", !.pc = "prefFind",
                      !.prior = {d \in Calls : Finished(d)}, !.epoch = restarts]]
    /\ UNCHANGED <<processedEvents, stores, env, faults>>

\* preferencesRepository.isQuietHoursActive(farmerId) called on its own
IsQuietHoursActive(c, farmerId) ==
    /\ NextSlot(c)
    /\ calls' = [calls EXCEPT ![c] =
            [@ EXCEPT !.kind = "quiet", !.farmerId = farmerId,
                      !.phase = "isQuiet", !.pc = "prefFind",
                      !.prior = {d \in Calls : Finished(d)}, !.epoch = restarts]]
    /\ UNCHANGED <<processedEvents, stores, env, faults>>

\* findByFarmerId: prisma findUnique; no row -> go on to create the defaults
PrefFindUnique(c) ==
    /\ calls[c].pc = "prefFind"
    /\ \/ /\ calls' = [calls EXCEPT ![c] =
                IF farmerNotificationPreferences[calls[c].farmerId] = NoPrefs
                THEN [@ EXCEPT !.pc = "prefCreate"]
                ELSE AfterPrefs(@, farmerNotificationPreferences[calls[c].farmerId])]
          /\ UNCHANGED faults
       \/ /\ faults > 0
          /\ faults' = faults - 1
          /\ calls' = [calls EXCEPT ![c] = Raise(@, "preferences")]
    /\ UNCHANGED <<processedEvents, stores, env>>

\* a findByFarmerId whose second step would write the defaults over a row that a
\* concurrent call has created meanwhile
PrefCreate_Overwrites(c) ==
    /\ calls[c].pc = "prefCreate"
    /\ farmerNotificationPreferences' =
            [farmerNotificationPreferences EXCEPT ![calls[c].farmerId] = DefaultPreferences]
    /\ calls' = [calls EXCEPT ![c] = AfterPrefs(@, DefaultPreferences)]
    /\ UNCHANGED <<processedEvents, farmerNotification, deviceToken, smsDeliveryLog, env,
                   faults>>

\* findByFarmerId: prisma create of the default row; farmerId is unique, so the
\* create of a row that a concurrent call has created meanwhile is rejected
PrefCreate(c) ==
    /\ calls[c].pc = "prefCreate"
    /\ \/ /\ IF farmerNotificationPreferences[calls[c].farmerId] = NoPrefs
             THEN /\ farmerNotificationPreferences' =
                        [farmerNotificationPreferences EXCEPT
                            ![calls[c].farmerId] = DefaultPreferences]
                  /\ calls' = [calls EXCEPT ![c] = AfterPrefs(@, DefaultPreferences)]
             ELSE /\ calls' = [calls EXCEPT ![c] = Raise(@, "preferences")]
                  /\ UNCHANGED farmerNotificationPreferences
          /\ UNCHANGED faults
       \/ /\ faults > 0
          /\ faults' = faults - 1
          /\ calls' = [calls EXCEPT ![c] = Raise(@, "preferences")]
          /\ UNCHANGED farmerNotificationPreferences
    /\ UNCHANGED <<processedEvents, farmerNotification, deviceToken, smsDeliveryLog, env>>

\* the id of the next row: ids are unique among the rows of the table
NewNotificationId ==
    LET ids == {n.id : n \in farmerNotification}
    IN IF ids = {} THEN 1 ELSE 1 + CHOOSE m \in ids : \A i \in ids : i <= m

\* notificationRepository.create: the row the router writes for the call k
NotificationRow(k, c) ==
    [id |-> NewNotificationId, farmerId |-> k.farmerId, type |-> k.type,
     event_id |-> IF k.eventMeta THEN k.eventId ELSE 0,
     isRead |-> FALSE, forEvent |-> k.eventId, by |-> c, age |-> 0]

\* storeNotification: create the in-app row; a failure is caught and yields null
StoreNotification(c) ==
    /\ calls[c].pc = "store"
    /\ \/ /\ farmerNotification' = farmerNotification \cup {NotificationRow(calls[c], c)}
          /\ calls' = [calls EXCEPT ![c] =
                AfterStore([@ EXCEPT !.notification = NewNotificationId,
                                     !.stored = "yes", !.created = @ + 1])]
          /\ UNCHANGED faults
       \/ /\ faults > 0
          /\ faults' = faults - 1
          /\ calls' = [calls EXCEPT ![c] = AfterStore([@ EXCEPT !.stored = "raised"])]
          /\ UNCHANGED farmerNotification
    /\ UNCHANGED <<processedEvents, farmerNotificationPreferences, deviceToken,
                   smsDeliveryLog, env>>

\* a result whose success would count the two channels only
RouterSuccess_ChannelsOnly(k) == k.smsResult.success \/ k.pushResult.success

\* the NotificationResult built at the end of sendNotification
RouterSuccess(k) == k.smsResult.success \/ k.pushResult.success \/ k.notification # 0

\* the synchronous tail of a call once its last await has resolved: sendNotification
\* returns its result; a dispatcher handler marks the event and returns result.success
Return(c) ==
    /\ calls[c].pc = "return"
    /\ LET k == calls[c]
           ok == IF k.kind = "sms" THEN k.smsResult.success
                 ELSE IF k.kind = "push" THEN k.pushResult.success
                 ELSE RouterSuccess(k)
       IN /\ calls' = [calls EXCEPT ![c] =
                [@ EXCEPT !.pc = "done", !.outcome = "returned", !.success = ok,
                          !.ret = ok, !.marked = (k.kind = "dispatch")]]
          /\ processedEvents' =
                IF k.kind = "dispatch" THEN markEventProcessed(processedEvents, k.eventId)
                ELSE processedEvents
    /\ UNCHANGED <<stores, env, faults>>

(***************************************************************************)
(* SMS channel: sendSms                                                    *)
(***************************************************************************)
\* messages of the errors a provider send can reject with
SmsErrors == {"Simulated network error", "provider timeout"}
StorageError == "storage error"
QuotaError == "Daily SMS quota exceeded"

\* a count that would include the logs still PENDING
QuotaCount_CountsPending(farmerId) ==
    Cardinality({i \in 1..Len(smsDeliveryLog) :
                    /\ smsDeliveryLog[i].farmerId = farmerId
                    /\ smsDeliveryLog[i].today
                    /\ smsDeliveryLog[i].status \in {"SENT", "DELIVERED", "PENDING"}})

\* a count that would take only the DELIVERED logs
QuotaCount_DeliveredOnly(farmerId) ==
    Cardinality({i \in 1..Len(smsDeliveryLog) :
                    /\ smsDeliveryLog[i].farmerId = farmerId
                    /\ smsDeliveryLog[i].today
                    /\ smsDeliveryLog[i].status = "DELIVERED"})

\* checkQuota's count: this farmer's rows created since local midnight, SENT or DELIVERED
QuotaCount(farmerId) ==
    Cardinality({i \in 1..Len(smsDeliveryLog) :
                    /\ smsDeliveryLog[i].farmerId = farmerId
                    /\ smsDeliveryLog[i].today
                    /\ smsDeliveryLog[i].status \in {"SENT", "DELIVERED"}})

\* a quota check that would still let the send at exactly the quota through
checkQuota_Strict(farmerId) == QuotaCount(farmerId) > dailyQuota

checkQuota(farmerId) == QuotaCount(farmerId) >= dailyQuota

\* sendViaTwilio is called: one provider attempt of the call is in flight
IssueSend(k) == [k EXCEPT !.pc = "smsAwait", !.inFlight = @ + 1, !.sends = @ + 1]

\* the provider message id of the attempt a call is making
MessageIdOf(c, k) == c * 10 + k.attempt + 1

\* smsService.sendSms(params) called on its own
SendSms(c, farmerId) ==
    /\ NextSlot(c)
    /\ calls' = [calls EXCEPT ![c] =
            [@ EXCEPT !.kind = "sms", !.farmerId = farmerId, !.phone = TRUE,
                      !.type = "ORDER_MATCHED", !.smsInvoked = TRUE, !.pc = "smsQuota",
                      !.prior = {d \in Calls : Finished(d)}, !.epoch = restarts]]
    /\ UNCHANGED <<processedEvents, stores, env, faults>>

\* sendSms: await checkQuota; over quota, return the quota error
SmsCheckQuota(c) ==
    /\ calls[c].pc = "smsQuota"
    /\ \/ /\ calls' = [calls EXCEPT ![c] =
                IF checkQuota(calls[c].farmerId)
                THEN AfterSms([@ EXCEPT !.quotaCount = QuotaCount(calls[c].farmerId)],
                              [success |-> FALSE, messageId |-> 0, error |-> QuotaError])
                ELSE [@ EXCEPT !.quotaCount = QuotaCount(calls[c].farmerId),
                               !.pc = "smsCreate"]]
          /\ UNCHANGED faults
       \/ /\ faults > 0
          /\ faults' = faults - 1
          /\ calls' = [calls EXCEPT ![c] = Raise(@, "sms")]
    /\ UNCHANGED <<processedEvents, stores, env>>

\* sendSms: await createDeliveryLog (PENDING, retryCount 0), then the first attempt
SmsCreateLog(c) ==
    /\ calls[c].pc = "smsCreate"
    /\ \/ /\ smsDeliveryLog' = Append(smsDeliveryLog,
                [farmerId |-> calls[c].farmerId, status |-> "PENDING", retryCount |-> 0,
                 messageId |-> 0, errorMessage |-> "-", today |-> TRUE, by |-> c])
          /\ calls' = [calls EXCEPT ![c] =
                IssueSend([@ EXCEPT !.logId = Len(smsDeliveryLog) + 1, !.attempt = 0])]
          /\ UNCHANGED faults
       \/ /\ faults > 0
          /\ faults' = faults - 1
          /\ calls' = [calls EXCEPT ![c] = Raise(@, "sms")]
          /\ UNCHANGED smsDeliveryLog
    /\ UNCHANGED <<processedEvents, farmerNotification, farmerNotificationPreferences,
                   deviceToken, env>>

\* the provider answers the attempt in flight: a message id, or an error (caught)
SmsProvider(c) ==
    /\ calls[c].pc = "smsAwait"
    /\ \/ calls' = [calls EXCEPT ![c] =
                [@ EXCEPT !.pc = "smsUpdateSent", !.inFlight = @ - 1,
                          !.messageId = MessageIdOf(c, calls[c]),
                          !.attempts = Append(@, "ok")]]
       \/ \E e \in smsErrors :
            calls' = [calls EXCEPT ![c] =
                [@ EXCEPT !.pc = "smsUpdateRetry", !.inFlight = @ - 1, !.lastError = e,
                          !.attempts = Append(@, e)]]
    /\ UNCHANGED <<processedEvents, stores, env, faults>>

\* try block, after a successful attempt: await updateDeliveryLog(SENT), return success.
\* The update sits inside the try, so its rejection lands in the catch block too.
SmsUpdateSent(c) ==
    /\ calls[c].pc = "smsUpdateSent"
    /\ \/ /\ smsDeliveryLog' = [smsDeliveryLog EXCEPT ![calls[c].logId] =
                [@ EXCEPT !.status = "SENT", !.messageId = calls[c].messageId]]
          /\ calls' = [calls EXCEPT ![c] =
                AfterSms(@, [success |-> TRUE, messageId |-> calls[c].messageId,
                             error |-> "-"])]
          /\ UNCHANGED faults
       \/ /\ faults > 0
          /\ faults' = faults - 1
          /\ calls' = [calls EXCEPT ![c] =
                [@ EXCEPT !.pc = "smsUpdateRetry", !.lastError = StorageError]]
          /\ UNCHANGED smsDeliveryLog
    /\ UNCHANGED <<processedEvents, farmerNotification, farmerNotificationPreferences,
                   deviceToken, env>>

\* a catch block that would record the error message but not the retry count
SmsUpdateRetry_KeepsCount(c) ==
    /\ calls[c].pc = "smsUpdateRetry"
    /\ \/ /\ smsDeliveryLog' = [smsDeliveryLog EXCEPT ![calls[c].logId] =
                [@ EXCEPT !.errorMessage = calls[c].lastError]]
          /\ calls' = [calls EXCEPT ![c] =
                IF calls[c].attempt < maxRetries - 1
                THEN [@ EXCEPT !.pc = "smsSleep"]
                ELSE [@ EXCEPT !.attempt = @ + 1, !.pc = "smsUpdateFailed"]]
          /\ UNCHANGED faults
       \/ /\ faults > 0
          /\ faults' = faults - 1
          /\ calls' = [calls EXCEPT ![c] = Raise(@, "sms")]
          /\ UNCHANGED smsDeliveryLog
    /\ UNCHANGED <<processedEvents, farmerNotification, farmerNotificationPreferences,
                   deviceToken, env>>

\* catch block: await updateDeliveryLog(retryCount = attempt + 1, errorMessage);
\* then sleep unless this was the last attempt
SmsUpdateRetry(c) ==
    /\ calls[c].pc = "smsUpdateRetry"
    /\ \/ /\ smsDeliveryLog' = [smsDeliveryLog EXCEPT ![calls[c].logId] =
                [@ EXCEPT !.retryCount = calls[c].attempt + 1,
                          !.errorMessage = calls[c].lastError]]
          /\ calls' = [calls EXCEPT ![c] =
                IF calls[c].attempt < maxRetries - 1
                THEN [@ EXCEPT !.pc = "smsSleep"]
                ELSE [@ EXCEPT !.attempt = @ + 1, !.pc = "smsUpdateFailed"]]
          /\ UNCHANGED faults
       \/ /\ faults > 0
          /\ faults' = faults - 1
          /\ calls' = [calls EXCEPT ![c] = Raise(@, "sms")]
          /\ UNCHANGED smsDeliveryLog
    /\ UNCHANGED <<processedEvents, farmerNotification, farmerNotificationPreferences,
                   deviceToken, env>>

\* a backoff that would issue the next attempt without counting it
SmsSleep_SameAttempt(c) ==
    /\ calls[c].pc = "smsSleep"
    /\ calls' = [calls EXCEPT ![c] =
            IssueSend([@ EXCEPT !.slept = Append(@, retryDelays[calls[c].attempt + 1])])]
    /\ UNCHANGED <<processedEvents, stores, env, faults>>

\* a backoff that would wait the first delay of the list before every retry
SmsSleep_FirstDelayOnly(c) ==
    /\ calls[c].pc = "smsSleep"
    /\ calls' = [calls EXCEPT ![c] =
            IssueSend([@ EXCEPT !.slept = Append(@, retryDelays[1]), !.attempt = @ + 1])]
    /\ UNCHANGED <<processedEvents, stores, env, faults>>

\* await sleep(retryDelays[attempt]) is over: attempt++, the next attempt is issued
SmsSleep(c) ==
    /\ calls[c].pc = "smsSleep"
    /\ calls' = [calls EXCEPT ![c] =
            IssueSend([@ EXCEPT !.slept = Append(@, retryDelays[calls[c].attempt + 1]),
                                !.attempt = @ + 1])]
    /\ UNCHANGED <<processedEvents, stores, env, faults>>

\* an exhaustion path that would return the failure without the final log update
SmsUpdateFailed_LeavesPending(c) ==
    /\ calls[c].pc = "smsUpdateFailed"
    /\ calls' = [calls EXCEPT ![c] =
            AfterSms(@, [success |-> FALSE, messageId |-> 0, error |-> calls[c].lastError])]
    /\ UNCHANGED <<processedEvents, stores, env, faults>>

\* all retries failed: await updateDeliveryLog(FAILED, lastError), return the failure
SmsUpdateFailed(c) ==
    /\ calls[c].pc = "smsUpdateFailed"
    /\ \/ /\ smsDeliveryLog' = [smsDeliveryLog EXCEPT ![calls[c].logId] =
                [@ EXCEPT !.status = "FAILED", !.errorMessage = calls[c].lastError]]
          /\ calls' = [calls EXCEPT ![c] =
                AfterSms(@, [success |-> FALSE, messageId |-> 0,
                             error |-> calls[c].lastError])]
          /\ UNCHANGED faults
       \/ /\ faults > 0
          /\ faults' = faults - 1
          /\ calls' = [calls EXCEPT ![c] = Raise(@, "sms")]
          /\ UNCHANGED smsDeliveryLog
    /\ UNCHANGED <<processedEvents, farmerNotification, farmerNotificationPreferences,
                   deviceToken, env>>

(***************************************************************************)
(* Push channel: sendToFarmer                                              *)
(***************************************************************************)
invalidTokenErrors ==
    {"messaging/invalid-registration-token",
     "messaging/registration-token-not-registered",
     "messaging/invalid-argument"}

\* what a provider send to one device can answer
PushOutcomes == {"ok", "messaging/invalid-registration-token", "messaging/internal-error"}

\* a signature test that would know the not-registered error only
isInvalidTokenError_UnregisteredOnly(error) ==
    error = "messaging/registration-token-not-registered"

isInvalidTokenError(error) == error \in invalidTokenErrors

\* deviceTokenRepository.findActiveByFarmerId
findActiveByFarmerId(farmerId) == {t \in Tokens : deviceToken[<<farmerId, t>>] = "active"}

\* deviceTokenRepository.markInvalid for each token of a set: updateMany where fcmToken
markInvalid(registry, invalid) ==
    [ft \in DOMAIN registry |->
        IF ft[2] \in invalid /\ registry[ft] # "none" THEN "inactive" ELSE registry[ft]]

\* an aggregation that would call the fan-out a success only if no send failed
Aggregate_AllOrNothing(results) ==
    LET good == {t \in DOMAIN results : results[t] = "ok"}
        bad == DOMAIN results \ good
    IN [success |-> Cardinality(bad) = 0, successCount |-> Cardinality(good),
        failureCount |-> Cardinality(bad),
        invalidTokens |-> {t \in bad : isInvalidTokenError(results[t])}]

\* results.forEach(...): the counts and the invalid tokens of a settled fan-out
Aggregate(results) ==
    LET good == {t \in DOMAIN results : results[t] = "ok"}
        bad == DOMAIN results \ good
    IN [success |-> Cardinality(good) > 0, successCount |-> Cardinality(good),
        failureCount |-> Cardinality(bad),
        invalidTokens |-> {t \in bad : isInvalidTokenError(results[t])}]

\* pushService.sendToFarmer(params) called on its own
SendToFarmer(c, farmerId, bypassQuietHours) ==
    /\ NextSlot(c)
    /\ calls' = [calls EXCEPT ![c] =
            PushEntry([@ EXCEPT !.kind = "push", !.farmerId = farmerId,
                                !.bypassQuietHours = bypassQuietHours,
                                !.prior = {d \in Calls : Finished(d)},
                                !.epoch = restarts])]
    /\ UNCHANGED <<processedEvents, stores, env, faults>>

\* a token query that would report a farmer without devices as a failure
PushTokens_NoTokenFails(c) ==
    /\ calls[c].pc = "pushTokens"
    /\ calls' = [calls EXCEPT ![c] =
            LET tokens == findActiveByFarmerId(calls[c].farmerId)
            IN IF tokens = {}
               THEN AfterPush(@, [success |-> FALSE, successCount |-> 0,
                                  failureCount |-> 0, invalidTokens |-> {}])
               ELSE [@ EXCEPT !.tokens = tokens, !.pending = tokens, !.pc = "pushFanout"]]
    /\ UNCHANGED <<processedEvents, stores, env, faults>>

\* sendToFarmer: await findActiveByFarmerId; no token -> trivial success
PushTokens(c) ==
    /\ calls[c].pc = "pushTokens"
    /\ \/ /\ calls' = [calls EXCEPT ![c] =
                LET tokens == findActiveByFarmerId(calls[c].farmerId)
                IN IF tokens = {}
                   THEN AfterPush(@, [success |-> TRUE, successCount |-> 0,
                                      failureCount |-> 0, invalidTokens |-> {}])
                   ELSE [@ EXCEPT !.tokens = tokens, !.pending = tokens,
                                  !.pc = "pushFanout"]]
          /\ UNCHANGED faults
       \/ /\ faults > 0
          /\ faults' = faults - 1
          /\ calls' = [calls EXCEPT ![c] = Raise(@, "push")]
    /\ UNCHANGED <<processedEvents, stores, env>>

\* Promise.allSettled over sendToDevice: one send settles; when all have settled the
\* results are aggregated and, with invalid tokens, the pruning is issued
PushDevice(c, t) ==
    /\ calls[c].pc = "pushFanout"
    /\ t \in calls[c].pending
    /\ \E o \in PushOutcomes :
         calls' = [calls EXCEPT ![c] =
            LET results == calls[c].results @@ (t :> o)
                k == [@ EXCEPT !.results = results, !.pending = @ \ {t}]
            IN IF k.pending # {} THEN k
               ELSE IF Aggregate(results).invalidTokens # {}
                    THEN [k EXCEPT !.pushResult = Aggregate(results), !.pc = "pushPrune"]
                    ELSE AfterPush(k, Aggregate(results))]
    /\ UNCHANGED <<processedEvents, stores, env, faults>>

\* await Promise.all(invalidTokens.map(markInvalid)): each update runs; if one is
\* rejected the others may still have been applied and sendToFarmer raises
PushPrune(c) ==
    /\ calls[c].pc = "pushPrune"
    /\ \/ /\ deviceToken' = markInvalid(deviceToken, calls[c].pushResult.invalidTokens)
          /\ calls' = [calls EXCEPT ![c] = AfterPush(@, calls[c].pushResult)]
          /\ UNCHANGED faults
       \/ /\ faults > 0
          /\ faults' = faults - 1
          /\ \E done \in SUBSET calls[c].pushResult.invalidTokens :
                /\ done # calls[c].pushResult.invalidTokens
                /\ deviceToken' = markInvalid(deviceToken, done)
          /\ calls' = [calls EXCEPT ![c] = Raise(@, "push")]
    /\ UNCHANGED <<processedEvents, farmerNotification, farmerNotificationPreferences,
                   smsDeliveryLog, env>>

(***************************************************************************)
(* Repository operations called by the gRPC service and the cleanup job    *)
(***************************************************************************)
\* the fields of input that are defined replace those of row
MergePreferences(row, input) ==
    [fld \in DOMAIN DefaultPreferences |->
        IF fld \in DOMAIN input THEN input[fld] ELSE row[fld]]

\* prisma upsert of preferencesRepository.update: update the defined fields of an
\* existing row, or create the row with input ?? default
update(row, input) ==
    IF row = NoPrefs THEN MergePreferences(DefaultPreferences, input)
    ELSE MergePreferences(row, input)

\* preferencesRepository.update(input)
UpdatePreferences(c, farmerId, input) ==
    /\ NextSlot(c)
    /\ \/ /\ farmerNotificationPreferences' =
                [farmerNotificationPreferences EXCEPT ![farmerId] = update(@, input)]
          /\ calls' = [calls EXCEPT ![c] =
                [@ EXCEPT !.kind = "update", !.farmerId = farmerId, !.input = input,
                          !.pc = "done", !.outcome = "returned", !.ret = TRUE,
                          !.prior = {d \in Calls : Finished(d)}, !.epoch = restarts]]
          /\ UNCHANGED faults
       \/ /\ faults > 0
          /\ faults' = faults - 1
          /\ calls' = [calls EXCEPT ![c] =
                Raise([@ EXCEPT !.kind = "update", !.farmerId = farmerId,
                                !.input = input,
                                !.prior = {d \in Calls : Finished(d)},
                                !.epoch = restarts], "preferences")]
          /\ UNCHANGED farmerNotificationPreferences
    /\ UNCHANGED <<processedEvents, farmerNotification, deviceToken, smsDeliveryLog, env>>

\* an upsert that would leave a deactivated record as it is
upsert_KeepsInactive(registry, farmerId, fcmToken) ==
    [registry EXCEPT ![<<farmerId, fcmToken>>] =
        IF @ = "inactive" THEN "inactive" ELSE "active"]

\* deviceTokenRepository.upsert: where farmerId_fcmToken; update isActive: true, or
\* create the record active
upsert(registry, farmerId, fcmToken) ==
    [registry EXCEPT ![<<farmerId, fcmToken>>] = "active"]

\* deviceTokenRepository.deactivate: updateMany where farmerId, fcmToken
deactivate(registry, farmerId, fcmToken) ==
    [registry EXCEPT ![<<farmerId, fcmToken>>] = IF @ = "none" THEN "none" ELSE "inactive"]

\* a repository call made of one storage operation has answered (ok) or was rejected
RepositoryCall(k, kind, ok) ==
    [k EXCEPT !.kind = kind, !.pc = "done", !.outcome = "returned", !.ret = ok,
              !.prior = {d \in Calls : Finished(d)}, !.epoch = restarts]

\* pushService.registerToken: upsert; an error is caught and answered with false
RegisterToken(c, farmerId, fcmToken) ==
    /\ NextSlot(c)
    /\ \/ /\ deviceToken' = upsert(deviceToken, farmerId, fcmToken)
          /\ calls' = [calls EXCEPT ![c] =
                RepositoryCall([@ EXCEPT !.farmerId = farmerId, !.token = fcmToken],
                               "register", TRUE)]
          /\ UNCHANGED faults
       \/ /\ faults > 0
          /\ faults' = faults - 1
          /\ calls' = [calls EXCEPT ![c] =
                RepositoryCall([@ EXCEPT !.farmerId = farmerId, !.token = fcmToken],
                               "register", FALSE)]
          /\ UNCHANGED deviceToken
    /\ UNCHANGED <<processedEvents, farmerNotification, farmerNotificationPreferences,
                   smsDeliveryLog, env>>

\* pushService.unregisterToken: deactivate; an error is caught and answered with false
UnregisterToken(c, farmerId, fcmToken) ==
    /\ NextSlot(c)
    /\ \/ /\ deviceToken' = deactivate(deviceToken, farmerId, fcmToken)
          /\ calls' = [calls EXCEPT ![c] =
                RepositoryCall([@ EXCEPT !.farmerId = farmerId, !.token = fcmToken],
                               "unregister", TRUE)]
          /\ UNCHANGED faults
       \/ /\ faults > 0
          /\ faults' = faults - 1
          /\ calls' = [calls EXCEPT ![c] =
                RepositoryCall([@ EXCEPT !.farmerId = farmerId, !.token = fcmToken],
                               "unregister", FALSE)]
          /\ UNCHANGED deviceToken
    /\ UNCHANGED <<processedEvents, farmerNotification, farmerNotificationPreferences,
                   smsDeliveryLog, env>>

\* a markAsRead that would match the id alone
markAsRead_AnyOwner(rows, id, farmerId) ==
    {IF n.id = id THEN [n EXCEPT !.isRead = TRUE] ELSE n : n \in rows}

\* notificationRepository.markAsRead: updateMany where id, farmerId
markAsRead(rows, id, farmerId) ==
    {IF n.id = id /\ n.farmerId = farmerId THEN [n EXCEPT !.isRead = TRUE] ELSE n :
        n \in rows}

\* notificationRepository.delete: deleteMany where id, farmerId
delete(rows, id, farmerId) == {n \in rows : ~(n.id = id /\ n.farmerId = farmerId)}

\* a cleanup that would delete every old row, read or not
deleteOlderThan_IgnoresRead(rows, days) == {n \in rows : ~(n.age > days)}

\* notificationRepository.deleteOlderThan: deleteMany where createdAt < cutoff, isRead
deleteOlderThan(rows, days) == {n \in rows : ~(n.age > days /\ n.isRead)}

\* one storage operation on the in-app rows: they become rows, the call answers ok
NotificationCall(c, k, kind, rows, ok) ==
    /\ NextSlot(c)
    /\ \/ /\ farmerNotification' = rows
          /\ calls' = [calls EXCEPT ![c] =
                [RepositoryCall(k, kind, ok) EXCEPT
                    !.count = Cardinality(farmerNotification) - Cardinality(rows)]]
          /\ UNCHANGED faults
       \/ /\ faults > 0
          /\ faults' = faults - 1
          /\ calls' = [calls EXCEPT ![c] =
                Raise([k EXCEPT !.kind = kind,
                                !.prior = {d \in Calls : Finished(d)},
                                !.epoch = restarts], "notification")]
          /\ UNCHANGED farmerNotification
    /\ UNCHANGED <<processedEvents, farmerNotificationPreferences, deviceToken,
                   smsDeliveryLog, env>>

MarkAsRead(c, id, farmerId) ==
    NotificationCall(c, [calls[c] EXCEPT !.id = id, !.farmerId = farmerId], "markAsRead",
                     markAsRead(farmerNotification, id, farmerId),
                     \E n \in farmerNotification : n.id = id /\ n.farmerId = farmerId)

Delete(c, id, farmerId) ==
    NotificationCall(c, [calls[c] EXCEPT !.id = id, !.farmerId = farmerId], "delete",
                     delete(farmerNotification, id, farmerId),
                     \E n \in farmerNotification : n.id = id /\ n.farmerId = farmerId)

DeleteOlderThan(c, days) ==
    NotificationCall(c, [calls[c] EXCEPT !.days = days], "deleteOlderThan",
                     deleteOlderThan(farmerNotification, days), TRUE)

(***************************************************************************)
(* Templates: substitution and language detection                          *)
(***************************************************************************)
\* a template is the sequence of its parts: literal text or a placeholder {{name}}
Text(t) == [text |-> t]
Placeholder(name) == [placeholder |-> name]
IsPlaceholder(part) == "placeholder" \in DOMAIN part

\* the values a variable can have: a number, a string, or undefined
Number(n) == [number |-> n]
String(v) == [string |-> v]
Undefined == [undefined |-> TRUE]

\* String(value ?? '')
StringOrEmpty(value) ==
    IF "number" \in DOMAIN value THEN ToString(value.number)
    ELSE IF "string" \in DOMAIN value THEN value.string
    ELSE ""

\* the replacement String.prototype.replace makes of its second argument
ReplaceValue(value) ==
    IF "number" \in DOMAIN value THEN ToString(value.number)
    ELSE IF "string" \in DOMAIN value THEN value.string
    ELSE "undefined"

\* substituteVariables: for each entry of variables, replace every {{key}} by
\* String(value ?? ''); a placeholder without an entry is never looked at
substituteVariables(template, variables) ==
    [i \in 1..Len(template) |->
        IF IsPlaceholder(template[i]) /\ template[i].placeholder \in DOMAIN variables
        THEN Text(StringOrEmpty(variables[template[i].placeholder]))
        ELSE template[i]]

\* SmsService.buildMessage on the template getTemplate returned: for each entry of
\* params, replace every {{key}} by the value
buildMessage(template, params) ==
    [i \in 1..Len(template) |->
        IF IsPlaceholder(template[i]) /\ template[i].placeholder \in DOMAIN params
        THEN Text(ReplaceValue(params[template[i].placeholder]))
        ELSE template[i]]

\* a language code is the sequence of its characters
toLowerCase(code) ==
    [i \in 1..Len(code) |->
        CASE code[i] = "K" -> "k"
          [] code[i] = "N" -> "n"
          [] code[i] = "H" -> "h"
          [] code[i] = "I" -> "i"
          [] OTHER -> code[i]]

\* code.slice(0, 2)
slice2(code) == SubSeq(code, 1, IF Len(code) < 2 THEN Len(code) ELSE 2)

\* droppoint-templates parseLanguage: toLowerCase().slice(0, 2), then the switch
parseLanguage(code) ==
    LET normalized == slice2(toLowerCase(code))
    IN CASE normalized = <<"k", "n">> -> "KANNADA"
         [] normalized = <<"k", "a">> -> "KANNADA"
         [] normalized = <<"h", "i">> -> "HINDI"
         [] normalized = <<"t", "a">> -> "TAMIL"
         [] normalized = <<"t", "e">> -> "TELUGU"
         [] OTHER -> "ENGLISH"

\* SmsService.parseLanguage: map[lang.toLowerCase()] || ENGLISH
SmsService_parseLanguage(lang) ==
    LET key == toLowerCase(lang)
    IN CASE key = <<"e", "n">> -> "ENGLISH"
         [] key = <<"k", "n">> -> "KANNADA"
         [] key = <<"h", "i">> -> "HINDI"
         [] key = <<"t", "a">> -> "TAMIL"
         [] key = <<"t", "e">> -> "TELUGU"
         [] OTHER -> "ENGLISH"

\* SupportedLanguage, and a language value outside it
SupportedLanguage == {"ENGLISH", "KANNADA", "HINDI", "TAMIL", "TELUGU"}
UnsupportedLanguage == "fr"

\* the placeholders of the SMS template family of each key; every family has a
\* variant for each supported language, with its own wording around the placeholders
SmsFamilies ==
    [key \in CRITICAL_TYPES |->
        CASE key = "ORDER_MATCHED" -> <<Placeholder("crop_name"), Placeholder("total_amount")>>
          [] key = "PAYMENT_RECEIVED" ->
                <<Placeholder("amount"), Placeholder("crop_name"), Placeholder("upi_id")>>
          [] key = "MATCH_EXPIRING" -> <<Placeholder("crop_name"), Placeholder("hours")>>
          [] key = "ORDER_CANCELLED" -> <<Placeholder("crop_name"), Placeholder("reason")>>
          [] OTHER -> <<Placeholder("crop_name")>>]

\* the templates object of SmsService.getTemplate
smsTemplates ==
    [key \in CRITICAL_TYPES |->
        [language \in SupportedLanguage |-> <<Text(language)>> \o SmsFamilies[key]]]

ASSIGNMENT_TEMPLATES ==
    [language \in SupportedLanguage |->
        <<Text(language), Placeholder("quantity_kg"), Placeholder("crop_name"),
          Placeholder("drop_point_name"), Placeholder("drop_point_address"),
          Placeholder("pickup_date"), Placeholder("pickup_time_window")>>]

CHANGE_TEMPLATES ==
    [language \in SupportedLanguage |->
        <<Text(language), Placeholder("old_drop_point_name"),
          Placeholder("drop_point_name"), Placeholder("drop_point_address"),
          Placeholder("pickup_date"), Placeholder("pickup_time_window"),
          Placeholder("change_reason")>>]

\* table[language] || table[ENGLISH]
VariantOrEnglish(table, language) ==
    IF language \in DOMAIN table THEN table[language] ELSE table["ENGLISH"]

\* an SMS template lookup that would answer the generic text for a language without
\* a variant
SmsService_getTemplate_NoEnglishFallback(templateKey, language) ==
    IF templateKey \in DOMAIN smsTemplates /\ language \in DOMAIN smsTemplates[templateKey]
    THEN smsTemplates[templateKey][language]
    ELSE <<Text("CropFresh: Notification for "), Text(templateKey)>>

\* SmsService.getTemplate: templates[key]?.[language] || templates[key]?.[ENGLISH]
\* || `CropFresh: Notification for ${templateKey}`
SmsService_getTemplate(templateKey, language) ==
    IF templateKey \in DOMAIN smsTemplates
    THEN VariantOrEnglish(smsTemplates[templateKey], language)
    ELSE <<Text("CropFresh: Notification for "), Text(templateKey)>>

\* what a throw leaves instead of a template
Thrown(message) == [thrown |-> message]

\* droppoint-templates getTemplate: the switch over the type; default throws
getTemplate(type, language) ==
    CASE type = "DROP_POINT_ASSIGNMENT" -> VariantOrEnglish(ASSIGNMENT_TEMPLATES, language)
      [] type = "DROP_POINT_CHANGE" -> VariantOrEnglish(CHANGE_TEMPLATES, language)
      [] OTHER -> Thrown("Unknown template type")

\* a pure template function is applied to the arguments the call slot holds
TemplateCall(c, kind, message, language) ==
    /\ NextSlot(c)
    /\ calls' = [calls EXCEPT ![c] =
            [@ EXCEPT !.kind = kind, !.message = message, !.language = language,
                      !.pc = "done", !.outcome = "returned",
                      !.prior = {d \in Calls : Finished(d)}, !.epoch = restarts]]
    /\ UNCHANGED <<processedEvents, stores, env, faults>>

SubstituteVariables(c) ==
    TemplateCall(c, "substituteVariables",
                 substituteVariables(calls[c].template, calls[c].variables), "-")

BuildMessage(c) ==
    TemplateCall(c, "buildMessage",
                 buildMessage(calls[c].template, calls[c].variables), "-")

ParseLanguage(c) ==
    TemplateCall(c, "parseLanguage", <<>>, parseLanguage(calls[c].code))

SmsParseLanguage(c) ==
    TemplateCall(c, "SmsService.parseLanguage", <<>>,
                 SmsService_parseLanguage(calls[c].code))

GetTemplate(c) ==
    TemplateCall(c, "getTemplate", getTemplate(calls[c].type, calls[c].lang), "-")

SmsGetTemplate(c) ==
    TemplateCall(c, "SmsService.getTemplate",
                 SmsService_getTemplate(calls[c].type, calls[c].lang), "-")

(***************************************************************************)
(* Initial states and specifications                                       *)
(***************************************************************************)
\* n delivery logs of farmer f1 sent earlier today
PriorLogs(n) ==
    [i \in 1..n |-> [farmerId |-> "f1", status |-> "SENT", retryCount |-> 0,
                     messageId |-> 1000 + i, errorMessage |-> "-", today |-> TRUE,
                     by |-> 0]]

NoTokens == [ft \in Farmers \X Tokens |-> "none"]
\* f1 and f2 have one device each, registered with the same token string
OneToken == [ft \in Farmers \X Tokens |-> IF ft[2] = "t1" THEN "active" ELSE "none"]
\* f1 has two devices; f2 has registered the token string t1 as well
SharedTokens ==
    [ft \in Farmers \X Tokens |-> IF ft = <<"f2", "t2">> THEN "none" ELSE "active"]

\* 10:00 (outside the default quiet hours) and 23:30 (inside)
Times == {600, 1410}

\* the dispatcher with a fresh database: no preferences row yet, no in-app rows
Init ==
    /\ calls = [c \in Calls |-> IdleCall]
    /\ processedEvents = <<>>
    /\ farmerNotification = {}
    /\ farmerNotificationPreferences = [f \in Farmers |-> NoPrefs]
    /\ deviceToken = OneToken
    /\ smsDeliveryLog = PriorLogs(0)
    /\ eventSource \in [EventIds -> EventTypes \cup {UnknownEventType}]
    /\ clock = 600
    /\ smsErrors = {"Simulated network error"}
    /\ faults = MaxFaults
    /\ restarts = 0

ChannelSteps(c) ==
    \/ PrefFindUnique(c)
    \/ PrefCreate(c)
    \/ StoreNotification(c)
    \/ SmsCheckQuota(c)
    \/ SmsCreateLog(c)
    \/ SmsProvider(c)
    \/ SmsUpdateSent(c)
    \/ SmsUpdateRetry(c)
    \/ SmsSleep(c)
    \/ SmsUpdateFailed(c)
    \/ PushTokens(c)
    \/ \E t \in Tokens : PushDevice(c, t)
    \/ PushPrune(c)
    \/ Return(c)

Next ==
    \/ \E c \in Calls, e \in EventIds : Dispatch(c, e)
    \/ \E c \in Calls : FindFirst(c)
    \/ \E c \in Calls : ChannelSteps(c)
    \/ Restart

Spec == Init /\ [][Next]_vars

(***************************************************************************)
(* The router on its own: direct sendNotification calls, every preference  *)
(* setting, both sides of the quota                                        *)
(***************************************************************************)
PrefChoices ==
    [smsEnabled : BOOLEAN, pushEnabled : BOOLEAN,
     quietHoursStart : {<<22, 0>>}, quietHoursEnd : {<<6, 0>>},
     quietHoursEnabled : BOOLEAN, notificationLevel : {"ALL", "CRITICAL", "MUTE"},
     orderUpdates : BOOLEAN, paymentAlerts : BOOLEAN, educationalContent : BOOLEAN]

\* one type per (critical?, category) class of the router's two tables
RouterTypes == {"ORDER_MATCHED", "PAYMENT_RECEIVED", "HAULER_EN_ROUTE", "EDUCATIONAL_CONTENT"}

InitRouter ==
    /\ calls = [c \in Calls |-> IdleCall]
    /\ processedEvents = <<>>
    /\ farmerNotification = {}
    /\ \E p \in PrefChoices \cup {NoPrefs} :
            farmerNotificationPreferences = [f \in Farmers |-> IF f = "f1" THEN p ELSE NoPrefs]
    /\ deviceToken \in {OneToken, SharedTokens}
    /\ smsDeliveryLog \in {PriorLogs(0), PriorLogs(dailyQuota)}
    /\ eventSource = [e \in EventIds |-> "ORDER_MATCHED"]
    /\ clock \in Times
    /\ smsErrors = {"Simulated network error"}
    /\ faults = RouterFaults
    /\ restarts = 0

NextRouter ==
    \/ \E c \in 1..RouterCalls, type \in RouterTypes, phone \in BOOLEAN, forceSms \in BOOLEAN :
            SendNotification(c, "f1", type, phone, forceSms)
    \/ \E c \in Calls : ChannelSteps(c)

SpecRouter == InitRouter /\ [][NextRouter]_vars

(***************************************************************************)
(* The preference evaluator on its own: shouldSendNotification and         *)
(* isQuietHoursActive called directly                                      *)
(***************************************************************************)
Categories == {"order", "payment", "educational"}

\* window bounds "HH:MM" and times of day (minutes since midnight) around them
QuietTimes == {<<0, 0>>, <<5, 0>>, <<6, 0>>, <<10, 0>>, <<22, 0>>, <<23, 30>>, <<23, 59>>}
QuietClocks == {0, 299, 300, 359, 360, 600, 1319, 1320, 1410, 1439}

\* the default row with another quiet-hours window
WindowChoices ==
    {[DefaultPreferences EXCEPT !.quietHoursStart = s, !.quietHoursEnd = e,
                                !.quietHoursEnabled = on] :
        s \in QuietTimes, e \in QuietTimes, on \in BOOLEAN}

InitPrefs ==
    /\ calls = [c \in Calls |-> IdleCall]
    /\ processedEvents = <<>>
    /\ farmerNotification = {}
    /\ \/ /\ \E p \in PrefChoices \cup {NoPrefs} :
                farmerNotificationPreferences =
                    [f \in Farmers |-> IF f = "f1" THEN p ELSE NoPrefs]
          /\ clock \in Times
       \/ /\ \E p \in WindowChoices :
                farmerNotificationPreferences =
                    [f \in Farmers |-> IF f = "f1" THEN p ELSE NoPrefs]
          /\ clock \in QuietClocks
    /\ deviceToken = NoTokens
    /\ smsDeliveryLog = PriorLogs(0)
    /\ eventSource = [e \in EventIds |-> "ORDER_MATCHED"]
    /\ smsErrors = {"Simulated network error"}
    /\ faults = MaxFaults
    /\ restarts = 0

NextPrefs ==
    \/ \E c \in 1..RouterCalls, isCritical \in BOOLEAN, category \in Categories :
            ShouldSendNotification(c, "f1", isCritical, category)
    \/ \E c \in 1..RouterCalls : IsQuietHoursActive(c, "f1")
    \/ \E c \in Calls : PrefFindUnique(c)
    \/ \E c \in Calls : PrefCreate(c)

SpecPrefs == InitPrefs /\ [][NextPrefs]_vars

(***************************************************************************)
(* The push channel on its own: concurrent sendToFarmer calls              *)
(***************************************************************************)
\* f1 has one active and one deactivated device, f2 has registered none
OneInactive ==
    [ft \in Farmers \X Tokens |->
        IF ft = <<"f1", "t1">> THEN "active"
        ELSE IF ft = <<"f1", "t2">> THEN "inactive" ELSE "none"]

InitPush ==
    /\ calls = [c \in Calls |-> IdleCall]
    /\ processedEvents = <<>>
    /\ farmerNotification = {}
    /\ \E p \in {NoPrefs, DefaultPreferences,
                 [DefaultPreferences EXCEPT !.quietHoursEnabled = FALSE]} :
            farmerNotificationPreferences = [f \in Farmers |-> p]
    /\ deviceToken \in {NoTokens, OneToken, SharedTokens, OneInactive}
    /\ smsDeliveryLog = PriorLogs(0)
    /\ eventSource = [e \in EventIds |-> "ORDER_MATCHED"]
    /\ clock \in Times
    /\ smsErrors = {"Simulated network error"}
    /\ faults = MaxFaults
    /\ restarts = 0

NextPush ==
    \/ \E c \in Calls, f \in Farmers, bypassQuietHours \in BOOLEAN :
            SendToFarmer(c, f, bypassQuietHours)
    \/ \E c \in Calls : PrefFindUnique(c)
    \/ \E c \in Calls : PrefCreate(c)
    \/ \E c \in Calls : PushTokens(c)
    \/ \E c \in Calls, t \in Tokens : PushDevice(c, t)
    \/ \E c \in Calls : PushPrune(c)
    \/ \E c \in Calls : Return(c)

SpecPush == InitPush /\ [][NextPush]_vars

(***************************************************************************)
(* The stores under the repository operations, reads and one notification  *)
(***************************************************************************)
\* what an UpdateNotificationPreferences request can set
UpdateInputs ==
    {[smsEnabled |-> FALSE],
     [notificationLevel |-> "MUTE", quietHoursEnabled |-> FALSE]}

\* in-app rows written some days ago: ids 1 and 2 of f1, id 3 of f2
StoredRows ==
    {[id |-> 1, farmerId |-> "f1", type |-> "ORDER_MATCHED", event_id |-> 0,
      isRead |-> TRUE, forEvent |-> 0, by |-> 0, age |-> 40],
     [id |-> 2, farmerId |-> "f1", type |-> "PAYMENT_RECEIVED", event_id |-> 0,
      isRead |-> FALSE, forEvent |-> 0, by |-> 0, age |-> 40],
     [id |-> 3, farmerId |-> "f2", type |-> "ORDER_MATCHED", event_id |-> 0,
      isRead |-> TRUE, forEvent |-> 0, by |-> 0, age |-> 10]}
StoredIds == {n.id : n \in StoredRows}
\* the retention periods the cleanup job can be run with, in days
RetentionDays == {30, 5}

InitRepo ==
    /\ calls = [c \in Calls |-> IdleCall]
    /\ processedEvents = <<>>
    /\ farmerNotification = StoredRows
    /\ \E p \in {NoPrefs, DefaultPreferences} :
            farmerNotificationPreferences = [f \in Farmers |-> p]
    /\ deviceToken \in {NoTokens, OneInactive}
    /\ smsDeliveryLog = PriorLogs(0)
    /\ eventSource = [e \in EventIds |-> "ORDER_MATCHED"]
    /\ clock = 600
    /\ smsErrors = {"Simulated network error"}
    /\ faults = MaxFaults
    /\ restarts = 0

NextRepo ==
    \/ \E c \in Calls, f \in Farmers, input \in UpdateInputs :
            UpdatePreferences(c, f, input)
    \/ \E c \in Calls, f \in Farmers : IsQuietHoursActive(c, f)
    \/ \E c \in Calls, f \in Farmers :
            SendNotification(c, f, "HAULER_EN_ROUTE", FALSE, FALSE)
    \/ \E c \in Calls, f \in Farmers, t \in Tokens : RegisterToken(c, f, t)
    \/ \E c \in Calls, f \in Farmers, t \in Tokens : UnregisterToken(c, f, t)
    \/ \E c \in Calls, id \in StoredIds, f \in Farmers : MarkAsRead(c, id, f)
    \/ \E c \in Calls, id \in StoredIds, f \in Farmers : Delete(c, id, f)
    \/ \E c \in Calls, days \in RetentionDays : DeleteOlderThan(c, days)
    \/ \E c \in Calls : PrefFindUnique(c)
    \/ \E c \in Calls : PrefCreate(c)
    \/ \E c \in Calls : StoreNotification(c)
    \/ \E c \in Calls : PushTokens(c)
    \/ \E c \in Calls, t \in Tokens : PushDevice(c, t)
    \/ \E c \in Calls : PushPrune(c)
    \/ \E c \in Calls : Return(c)

SpecRepo == InitRepo /\ [][NextRepo]_vars

(***************************************************************************)
(* The template functions applied to drawn templates, variables and codes  *)
(***************************************************************************)
Templates ==
    {<<Text("Deliver "), Placeholder("quantity_kg"), Text("kg "),
       Placeholder("crop_name")>>,
     <<Placeholder("farmer_name"), Text(", your listing is confirmed: "),
       Placeholder("crop_name"), Text(" / "), Placeholder("crop_name")>>,
     <<Text("CropFresh: Buyer found for "), Placeholder("crop_name"), Text("!")>>}

VariableNames == {"crop_name", "quantity_kg", "farmer_name"}
ValuesOf(name) ==
    IF name = "crop_name" THEN {String("Tomatoes")}
    ELSE IF name = "quantity_kg" THEN {Number(50)}
    ELSE {String("Ravi"), Undefined}
\* every variable set: some of the names, each with one of its values
VariableSets ==
    UNION {{v \in [names -> UNION {ValuesOf(n) : n \in names}] :
                \A n \in names : v[n] \in ValuesOf(n)} :
            names \in SUBSET VariableNames}

Codes ==
    {<<"k", "n">>, <<"K", "N">>, <<"k", "n", "-", "I", "N">>,
     <<"h", "i">>, <<"h", "i", "-", "I", "N">>, <<"k", "a">>, <<"t", "a">>,
     <<"t", "e">>, <<"e", "n">>, <<"f", "r">>, <<"k">>, <<>>}

\* the template keys drawn: with an SMS family, with a drop-point table, with neither
TemplateKeys ==
    {"ORDER_MATCHED", "PAYMENT_RECEIVED", "HAULER_EN_ROUTE", "DROP_POINT_ASSIGNMENT",
     "DROP_POINT_CHANGE"}

InitTemplates ==
    /\ \E template \in Templates, variables \in VariableSets, code \in Codes,
          type \in TemplateKeys, lang \in SupportedLanguage \cup {UnsupportedLanguage} :
            calls = [c \in Calls |->
                        [IdleCall EXCEPT !.template = template,
                                         !.variables = variables, !.code = code,
                                         !.type = type, !.lang = lang]]
    /\ processedEvents = <<>>
    /\ farmerNotification = {}
    /\ farmerNotificationPreferences = [f \in Farmers |-> NoPrefs]
    /\ deviceToken = NoTokens
    /\ smsDeliveryLog = PriorLogs(0)
    /\ eventSource = [e \in EventIds |-> "ORDER_MATCHED"]
    /\ clock = 600
    /\ smsErrors = {"Simulated network error"}
    /\ faults = 0
    /\ restarts = 0

NextTemplates ==
    \/ \E c \in Calls : SubstituteVariables(c)
    \/ \E c \in Calls : BuildMessage(c)
    \/ \E c \in Calls : ParseLanguage(c)
    \/ \E c \in Calls : SmsParseLanguage(c)
    \/ \E c \in Calls : GetTemplate(c)
    \/ \E c \in Calls : SmsGetTemplate(c)

SpecTemplates == InitTemplates /\ [][NextTemplates]_vars

(***************************************************************************)
(* SMS delivery statistics: getDeliveryStats                               *)
(***************************************************************************)
\* prisma.smsDeliveryLog.count where {farmerId, createdAt >= today}, with or without
\* a status filter
CountToday(farmerId, statuses) ==
    Cardinality({i \in 1..Len(smsDeliveryLog) :
                    /\ smsDeliveryLog[i].farmerId = farmerId
                    /\ smsDeliveryLog[i].today
                    /\ smsDeliveryLog[i].status \in statuses})
LogStatuses == {"PENDING", "SENT", "DELIVERED", "FAILED"}
\* the filter of each of the three counts
StatsFilter(q) ==
    CASE q = "today" -> LogStatuses
      [] q = "todayDelivered" -> {"DELIVERED"}
      [] q = "todayFailed" -> {"FAILED"}

\* remaining: Math.max(0, dailyQuota - sent)
Remaining(sent) == IF dailyQuota - sent > 0 THEN dailyQuota - sent ELSE 0

\* getDeliveryStats is called: the three counts are issued together (Promise.all)
GetDeliveryStats(c, farmerId) ==
    /\ NextSlot(c)
    /\ calls' = [calls EXCEPT ![c] =
            [@ EXCEPT !.kind = "stats", !.farmerId = farmerId, !.pc = "statsCount",
                      !.prior = {d \in Calls : Finished(d)}, !.epoch = restarts]]
    /\ UNCHANGED <<processedEvents, stores, env, faults>>

\* one of the counts resolves; with the last one the statistics are returned; a count
\* that rejects makes the call raise
StatsCount(c) ==
    /\ calls[c].pc = "statsCount"
    /\ \/ /\ \E q \in {"today", "todayDelivered", "todayFailed"} :
                /\ calls[c].stats[q] = -1
                /\ LET read == [calls[c].stats EXCEPT
                                    ![q] = CountToday(calls[c].farmerId, StatsFilter(q))]
                       last == \A r \in {"today", "todayDelivered", "todayFailed"} :
                                    read[r] # -1
                   IN calls' = [calls EXCEPT ![c] =
                        IF last
                        THEN [@ EXCEPT !.stats = [read EXCEPT
                                                    !.remaining = Remaining(read.today)],
                                       !.pc = "done", !.outcome = "returned", !.ret = TRUE]
                        ELSE [@ EXCEPT !.stats = read]]
          /\ UNCHANGED faults
       \/ /\ faults > 0
          /\ faults' = faults - 1
          /\ calls' = [calls EXCEPT ![c] = Raise(@, "stats")]
    /\ UNCHANGED <<processedEvents, stores, env>>

(***************************************************************************)
(* The processed-event cache on its own: marking around the size cap       *)
(***************************************************************************)
\* how far below the cap a run may start, and how many new eventIds arrive
CacheSlack == 2
FreshEvents == 4

\* the cache after n earlier events were marked, in insertion order
Prefilled(n) == [i \in 1..n |-> 1000 + i]
\* eventIds marked in a run: new ones, the oldest entry and a recent entry
CacheInputs == (1..FreshEvents) \cup {1001, 1000 + MAX_CACHE_SIZE - CacheSlack}

\* markEventProcessed(eventId)
MarkEventProcessed(eventId) ==
    /\ processedEvents' = markEventProcessed(processedEvents, eventId)
    /\ UNCHANGED <<calls, stores, env, faults>>

InitCache ==
    /\ calls = [c \in Calls |-> IdleCall]
    /\ \E n \in (MAX_CACHE_SIZE - CacheSlack)..MAX_CACHE_SIZE : processedEvents = Prefilled(n)
    /\ farmerNotification = {}
    /\ farmerNotificationPreferences = [f \in Farmers |-> NoPrefs]
    /\ deviceToken = NoTokens
    /\ smsDeliveryLog = PriorLogs(0)
    /\ eventSource = [e \in EventIds |-> "ORDER_MATCHED"]
    /\ clock = 600
    /\ smsErrors = {"Simulated network error"}
    /\ faults = 0
    /\ restarts = 0

NextCache == \E eventId \in CacheInputs : MarkEventProcessed(eventId)

SpecCache == InitCache /\ [][NextCache]_vars

(***************************************************************************)
(* The SMS channel on its own: concurrent sendSms calls around the quota   *)
(***************************************************************************)
\* how far below the daily quota a run may start
QuotaMargin == 1

InitSms ==
    /\ calls = [c \in Calls |-> IdleCall]
    /\ processedEvents = <<>>
    /\ farmerNotification = {}
    /\ farmerNotificationPreferences = [f \in Farmers |-> NoPrefs]
    /\ deviceToken = NoTokens
    /\ \E n \in (dailyQuota - QuotaMargin)..dailyQuota : smsDeliveryLog = PriorLogs(n)
    /\ eventSource = [e \in EventIds |-> "ORDER_MATCHED"]
    /\ clock = 600
    /\ smsErrors = SmsErrors
    /\ faults = SmsFaults
    /\ restarts = 0

SmsSteps(c) ==
    \/ SmsCheckQuota(c)
    \/ SmsCreateLog(c)
    \/ SmsProvider(c)
    \/ SmsUpdateSent(c)
    \/ SmsUpdateRetry(c)
    \/ SmsSleep(c)
    \/ SmsUpdateFailed(c)
    \/ Return(c)

NextSms ==
    \/ \E c \in Calls, f \in Farmers : SendSms(c, f)
    \/ \E c \in Calls : SmsSteps(c)

SpecSms == InitSms /\ [][NextSms]_vars

\* the SMS channel when every provider call, storage call and timer completes: a
\* call that waits at an await is resumed
SpecSmsFair == SpecSms /\ \A c \in Calls : WF_vars(SmsSteps(c))

\* the SMS channel with its statistics read while sends are in progress
NextStats ==
    \/ \E c \in Calls, f \in Farmers : SendSms(c, f)
    \/ \E c \in Calls, f \in Farmers : GetDeliveryStats(c, f)
    \/ \E c \in Calls : StatsCount(c)
    \/ \E c \in Calls : SmsSteps(c)

SpecStats == InitSms /\ [][NextStats]_vars

(***************************************************************************)
(* Properties of the event dispatcher                                      *)
(***************************************************************************)
IsDispatchOf(c, e) == calls[c].kind = "dispatch" /\ calls[c].eventId = e

\* the collaborators that are neither the SMS nor the push channel answered the call:
\* the preferences read of the decision and the in-app store did not fail
RouterStoresWorked(c) ==
    calls[c].stored # "raised" /\ calls[c].raisedBy # "preferences"

RowsBy(c) == {n \in farmerNotification : n.by = c}
LogsBy(c) == {i \in 1..Len(smsDeliveryLog) : smsDeliveryLog[i].by = c}

\* C1: when the same eventId is dispatched twice in sequence in one process (the first
\* call has returned before the second starts), whatever the SMS and push channels
\* do, exactly one InAppNotification is created in total and the second call
\* returns false.
C1_SequentialDispatchCreatesOne ==
    \A c1, c2 \in Calls :
        (/\ c1 # c2
         /\ IsDispatchOf(c1, calls[c2].eventId) /\ calls[c2].kind = "dispatch"
         /\ calls[c1].eventType \in EventTypes
         /\ \A d \in Calls \ {c1, c2} : ~IsDispatchOf(d, calls[c2].eventId)
         /\ c1 \in calls[c2].prior
         /\ calls[c1].epoch = calls[c2].epoch
         /\ Finished(c2)
         /\ RouterStoresWorked(c1) /\ RouterStoresWorked(c2))
        => /\ calls[c1].created + calls[c2].created = 1
           /\ calls[c2].ret = FALSE

\* C2: in every reachable state, over any interleaving of dispatchEvent calls, at most
\* one InAppNotification has been created on behalf of any given eventId.
C2_AtMostOneNotificationPerEvent ==
    \A e \in EventIds : Cardinality({n \in farmerNotification : n.forEvent = e}) <= 1

\* C3: once a dispatch of eventId E has created its InAppNotification, a later dispatch
\* of E that finds the in-memory processed set without E (here: after a process
\* restart) is recognised as already processed by the durable lookup, when that
\* lookup answers: it returns false and creates no second InAppNotification.
C3_DurableDedup ==
    \A c1, c2 \in Calls :
        (/\ c1 # c2
         /\ IsDispatchOf(c1, calls[c2].eventId) /\ calls[c2].kind = "dispatch"
         /\ calls[c1].created = 1 /\ calls[c1].marked
         /\ c1 \in calls[c2].prior
         /\ calls[c2].epoch > calls[c1].epoch
         /\ calls[c2].rejected # "memory"
         /\ ~calls[c2].lookupFailed
         /\ Finished(c2))
        => /\ calls[c2].ret = FALSE
           /\ calls[c2].created = 0

\* C4: a dispatch rejected as already processed has no side effects: no Router call,
\* hence no InAppNotification, no SMS delivery log, no push send and no preferences
\* row from it, and the step that rejects it leaves every store and the in-memory
\* processed set unchanged; it returns false.
C4_RejectedDispatchNoSideEffects ==
    /\ [](\A c \in Calls :
            calls[c].rejected # "no" =>
                /\ calls[c].outcome = "returned" /\ calls[c].ret = FALSE
                /\ ~calls[c].decided /\ calls[c].stored = "no"
                /\ ~calls[c].smsInvoked /\ ~calls[c].pushInvoked
                /\ calls[c].tokens = {} /\ calls[c].sends = 0
                /\ RowsBy(c) = {} /\ LogsBy(c) = {}
                /\ ~calls[c].marked)
    /\ [][\A c \in Calls :
            (calls[c].rejected = "no" /\ calls'[c].rejected # "no") =>
                UNCHANGED <<stores, processedEvents>>]_vars

\* C4 witness: a redelivered event was rejected by the durable lookup after a restart
C4_Witness ==
    \E c \in Calls :
        /\ calls[c].rejected = "durable"
        /\ calls[c].epoch > 0
        /\ farmerNotification # {}

\* C24: dispatchEvent with an event type outside the handler table returns false
\* without raising and without side effects: no Router call, no record of any kind
\* from it, and the stores and the processed set are as they were before the call.
C24_UnknownEventTypeIgnored ==
    /\ [](\A c \in Calls :
            (calls[c].kind = "dispatch" /\ calls[c].eventType \notin EventTypes) =>
                /\ calls[c].pc = "done" /\ calls[c].outcome = "returned"
                /\ calls[c].ret = FALSE /\ calls[c].raisedBy = "-"
                /\ ~calls[c].decided /\ calls[c].stored = "no"
                /\ ~calls[c].smsInvoked /\ ~calls[c].pushInvoked
                /\ RowsBy(c) = {} /\ LogsBy(c) = {}
                /\ ~calls[c].marked
                /\ calls[c].eventId \notin Range(processedEvents))
    /\ [][\A c \in Calls :
            (calls'[c].kind = "dispatch" /\ calls[c].kind # "dispatch"
                /\ calls'[c].eventType \notin EventTypes) =>
                UNCHANGED <<stores, processedEvents>>]_vars

\* C24 witness: an event of an unknown type was dispatched twice, both answered false,
\* and nothing was stored or remembered
C24_Witness ==
    \E c1, c2 \in Calls :
        /\ c1 # c2
        /\ calls[c1].kind = "dispatch" /\ calls[c2].kind = "dispatch"
        /\ calls[c1].eventType = UnknownEventType
        /\ calls[c2].eventType = UnknownEventType
        /\ calls[c1].ret = FALSE /\ calls[c2].ret = FALSE
        /\ Finished(c1) /\ Finished(c2)
        /\ farmerNotification = {} /\ processedEvents = <<>>

\* C7: no failure of a collaborator makes sendNotification (called directly or by a
\* dispatcher handler) raise: every call ends with a structured result.
C7_NoCollaboratorFailureRaises ==
    \A c \in Calls : calls[c].raisedBy = "-" /\ calls[c].outcome # "raised"

(***************************************************************************)
(* Properties of the router                                                *)
(***************************************************************************)
IsSend(c) == calls[c].kind = "send"

\* a non-critical order notification for a farmer in CRITICAL mode with order updates off
SilentOrderScenario(c) ==
    /\ IsSend(c)
    /\ farmerNotificationPreferences[calls[c].farmerId] # NoPrefs
    /\ farmerNotificationPreferences[calls[c].farmerId].notificationLevel = "CRITICAL"
    /\ farmerNotificationPreferences[calls[c].farmerId].orderUpdates = FALSE
    /\ calls[c].type \notin CRITICAL_TYPES /\ ~calls[c].forceSms
    /\ TYPE_CATEGORY(calls[c].type) = "order"

\* C5: every sendNotification call runs the in-app store operation once the preference
\* decision is made, whatever the decision; when that operation does not raise,
\* exactly one InAppNotification (isRead = false) exists for the call's farmer,
\* whatever the channels do afterwards; a non-critical order notification for a farmer
\* with notificationLevel CRITICAL and orderUpdates off is decided sms = false,
\* push = false, invokes no channel, stores one record and returns success = true.
C5_StoreRegardlessOfDecision ==
    \A c \in Calls :
        IsSend(c) =>
            /\ (calls[c].decided /\ calls[c].pc # "store") => calls[c].stored # "no"
            /\ calls[c].stored = "yes" =>
                    /\ calls[c].created = 1
                    /\ Cardinality(RowsBy(c)) = 1
                    /\ \A n \in RowsBy(c) :
                            /\ n.isRead = FALSE
                            /\ n.farmerId = calls[c].farmerId
                            /\ n.type = calls[c].type
            /\ calls[c].stored # "yes" => calls[c].created = 0 /\ RowsBy(c) = {}
            /\ (SilentOrderScenario(c) /\ calls[c].stored = "yes" /\ Finished(c)) =>
                    /\ ~calls[c].shouldSendSms /\ ~calls[c].shouldSendPush
                    /\ ~calls[c].smsInvoked /\ ~calls[c].pushInvoked
                    /\ calls[c].outcome = "returned" /\ calls[c].success = TRUE

\* C5 witness: the CRITICAL-mode scenario has returned success with its one record
C5_Witness ==
    \E c \in Calls :
        /\ SilentOrderScenario(c) /\ Finished(c)
        /\ calls[c].created = 1 /\ calls[c].success = TRUE
        /\ ~calls[c].shouldSendSms /\ ~calls[c].shouldSendPush

\* C6: for every sendNotification call that returns, success equals smsSuccess OR
\* pushSuccess OR (an in-app record was created); smsSuccess and pushSuccess are
\* false when the channel was not invoked.
C6_SuccessIsDisjunction ==
    \A c \in Calls :
        (IsSend(c) /\ calls[c].outcome = "returned") =>
            /\ calls[c].success =
                    (calls[c].smsResult.success \/ calls[c].pushResult.success
                        \/ calls[c].created = 1)
            /\ ~calls[c].smsInvoked => ~calls[c].smsResult.success
            /\ ~calls[c].pushInvoked => ~calls[c].pushResult.success

\* C6 witness: a call returned success on the strength of the in-app record alone
C6_Witness ==
    \E c \in Calls :
        /\ IsSend(c) /\ calls[c].outcome = "returned" /\ calls[c].success = TRUE
        /\ ~calls[c].smsResult.success /\ ~calls[c].pushResult.success
        /\ calls[c].created = 1

\* C8: when the in-app store raises, sendNotification treats the notification as
\* absent, still invokes the SMS channel and the push channel exactly as the
\* preference decision dictates, and returns success = smsSuccess OR pushSuccess.
C8_StoreFailureStillRunsChannels ==
    \A c \in Calls :
        (IsSend(c) /\ calls[c].stored = "raised" /\ Finished(c)) =>
            /\ calls[c].notification = 0
            /\ calls[c].smsInvoked = (calls[c].shouldSendSms /\ calls[c].phone)
            /\ calls[c].pushInvoked = calls[c].shouldSendPush
            /\ calls[c].outcome = "returned"
            /\ calls[c].success =
                    (calls[c].smsResult.success \/ calls[c].pushResult.success)

\* C25: sendNotification invokes the SMS channel only if the evaluator permitted sms
\* and a phone number is present, and a call that returns has invoked it whenever both
\* hold; a notification that is neither of a critical type nor sent with forceSms
\* never has the SMS channel invoked and never gets an SMS delivery log.
C25_SmsOnlyWhenPermitted ==
    \A c \in Calls :
        IsSend(c) =>
            /\ calls[c].smsInvoked =>
                    calls[c].decided /\ calls[c].shouldSendSms /\ calls[c].phone
            /\ calls[c].outcome = "returned" =>
                    calls[c].smsInvoked = (calls[c].shouldSendSms /\ calls[c].phone)
            /\ LogsBy(c) # {} => calls[c].smsInvoked
            /\ (/\ calls[c].type \notin {"ORDER_MATCHED", "PAYMENT_RECEIVED",
                                         "MATCH_EXPIRING", "ORDER_CANCELLED",
                                         "QUALITY_DISPUTE"}
                /\ ~calls[c].forceSms) =>
                    ~calls[c].smsInvoked /\ LogsBy(c) = {}

\* C25 witness: a non-critical notification sent with forceSms and a phone number got
\* its SMS delivery log
C25_Witness ==
    \E c \in Calls :
        /\ IsSend(c) /\ calls[c].outcome = "returned"
        /\ calls[c].type = "HAULER_EN_ROUTE" /\ calls[c].forceSms /\ calls[c].phone
        /\ calls[c].smsInvoked /\ LogsBy(c) # {}

(***************************************************************************)
(* Properties of the SMS channel                                           *)
(***************************************************************************)
IsSms(c) == calls[c].kind = "sms"

\* the farmer's delivery logs of today with status SENT or DELIVERED, counted afresh
SentToday(farmerId) ==
    {i \in 1..Len(smsDeliveryLog) :
        /\ smsDeliveryLog[i].farmerId = farmerId
        /\ smsDeliveryLog[i].today
        /\ smsDeliveryLog[i].status = "SENT" \/ smsDeliveryLog[i].status = "DELIVERED"}

QuotaRejected(k) == k.smsResult.error = QuotaError

\* C9: when the quota check of a sendSms answers, the send is rejected if and only if
\* the farmer's count of today's SENT or DELIVERED logs is >= 20; a rejected send
\* returns success = false with the quota error, makes no provider attempt and
\* creates no delivery log; with 19 or less the send goes on to create its log, and
\* once the log is created the provider is attempted.
C9_QuotaBoundary ==
    /\ [][\A c \in Calls :
            (/\ IsSms(c) /\ calls[c].pc = "smsQuota"
             /\ calls'[c].pc # "smsQuota" /\ calls'[c].raisedBy = "-") =>
                /\ QuotaRejected(calls'[c]) <=> Cardinality(SentToday(calls[c].farmerId)) >= 20
                /\ Cardinality(SentToday(calls[c].farmerId)) <= 19 =>
                        calls'[c].pc = "smsCreate"
                /\ smsDeliveryLog' = smsDeliveryLog]_vars
    /\ [](\A c \in Calls :
            IsSms(c) =>
                /\ QuotaRejected(calls[c]) =>
                        /\ ~calls[c].smsResult.success
                        /\ calls[c].sends = 0 /\ calls[c].attempts = <<>>
                        /\ calls[c].logId = 0 /\ LogsBy(c) = {}
                        /\ Finished(c) =>
                                calls[c].outcome = "returned" /\ calls[c].success = FALSE
                /\ calls[c].logId # 0 =>
                        /\ LogsBy(c) = {calls[c].logId}
                        /\ calls[c].sends >= 1)

\* C9 witness: one send went through at a count of 19 and the next was rejected at 20
C9_Witness ==
    \E c1, c2 \in Calls :
        /\ IsSms(c1) /\ calls[c1].quotaCount = 19 /\ calls[c1].sends >= 1
        /\ LogsBy(c1) # {} /\ Finished(c1)
        /\ IsSms(c2) /\ calls[c2].quotaCount = 20 /\ QuotaRejected(calls[c2])
        /\ Finished(c2) /\ calls[c2].success = FALSE

\* C10: within one sendSms the provider is attempted at most 3 times, never two
\* attempts in flight, and none after an attempt has succeeded: the first success
\* sets the log to SENT with the provider message id and returns success = true.
C10_SequentialAttemptsStopAtSuccess ==
    \A c \in Calls :
        IsSms(c) =>
            /\ calls[c].inFlight <= 1
            /\ calls[c].sends <= 3
            /\ \A i \in 1..Len(calls[c].attempts) :
                    calls[c].attempts[i] = "ok" => calls[c].sends = i
            /\ (calls[c].outcome = "returned" /\ "ok" \in Range(calls[c].attempts)) =>
                    /\ calls[c].success = TRUE
                    /\ smsDeliveryLog[calls[c].logId].status = "SENT"
                    /\ smsDeliveryLog[calls[c].logId].messageId = calls[c].smsResult.messageId

LogOf(c) == smsDeliveryLog[calls[c].logId]

\* the provider failed on every one of the three attempts of the call
ProviderFailedThrice(c) ==
    /\ IsSms(c)
    /\ Len(calls[c].attempts) = 3
    /\ \A i \in 1..3 : calls[c].attempts[i] # "ok"

\* C11: when the provider fails on 3 consecutive attempts of one sendSms, the
\* operation returns success = false with the error message of the last attempt, and
\* its delivery log ends with status FAILED, retryCount 3 and that last message.
C11_RetryExhaustion ==
    \A c \in Calls :
        (ProviderFailedThrice(c) /\ calls[c].outcome = "returned") =>
            /\ calls[c].success = FALSE
            /\ calls[c].smsResult.success = FALSE
            /\ calls[c].smsResult.error = calls[c].attempts[3]
            /\ calls[c].sends = 3
            /\ LogOf(c).status = "FAILED"
            /\ LogOf(c).retryCount = 3
            /\ LogOf(c).errorMessage = calls[c].attempts[3]

\* C11 witness: three failed attempts, the last with another error than the second
C11_Witness ==
    \E c \in Calls :
        /\ ProviderFailedThrice(c) /\ calls[c].outcome = "returned"
        /\ calls[c].attempts[3] # calls[c].attempts[2]
        /\ LogOf(c).status = "FAILED"

\* C12: every sendSms that passes the quota check creates exactly one delivery log,
\* created PENDING with retryCount 0 before the first provider attempt and updated
\* after each attempt (before the next one is issued); when sendSms returns, the log
\* is SENT if the result is a success and FAILED otherwise, never PENDING.
C12_OneLogReflectsFinalState ==
    /\ [](\A c \in Calls :
            IsSms(c) =>
                /\ Cardinality(LogsBy(c)) <= 1
                /\ calls[c].sends >= 1 => LogsBy(c) = {calls[c].logId}
                /\ (calls[c].sends = 1 /\ calls[c].attempts = <<>>) =>
                        LogOf(c).status = "PENDING" /\ LogOf(c).retryCount = 0
                /\ (calls[c].outcome = "returned" /\ ~QuotaRejected(calls[c])) =>
                        /\ Cardinality(LogsBy(c)) = 1
                        /\ LogOf(c).status =
                                (IF calls[c].smsResult.success THEN "SENT" ELSE "FAILED")
                        /\ calls[c].smsResult.success =>
                                LogOf(c).messageId = calls[c].smsResult.messageId)
    /\ [][\A c \in Calls :
            (IsSms(c) /\ calls'[c].sends = calls[c].sends + 1) =>
                IF calls[c].sends = 0
                THEN /\ Len(smsDeliveryLog') = Len(smsDeliveryLog) + 1
                     /\ smsDeliveryLog'[Len(smsDeliveryLog')].status = "PENDING"
                     /\ smsDeliveryLog'[Len(smsDeliveryLog')].retryCount = 0
                     /\ smsDeliveryLog'[Len(smsDeliveryLog')].by = c
                ELSE /\ Len(calls[c].attempts) = calls[c].sends
                     /\ LogOf(c).retryCount = calls[c].sends]_vars

\* C12 witness: one send returned a success and another a failure, each with its log
C12_Witness ==
    \E c1, c2 \in Calls :
        /\ IsSms(c1) /\ calls[c1].outcome = "returned" /\ calls[c1].smsResult.success
        /\ LogOf(c1).status = "SENT"
        /\ IsSms(c2) /\ calls[c2].outcome = "returned" /\ calls[c2].sends = 3
        /\ ~calls[c2].smsResult.success /\ LogOf(c2).status = "FAILED"

\* C13: a failed attempt that is not the last is followed by a suspension before the
\* next attempt starts; the suspensions are 1s before attempt 2 and 5s before attempt
\* 3 (in list order, strictly increasing); the log update for a failed attempt
\* happens before its suspension; the last failed attempt is followed by none.
C13_BackoffOrdering ==
    \A c \in Calls :
        IsSms(c) =>
            /\ Len(calls[c].slept) <= 2
            /\ \A i \in 1..Len(calls[c].slept) : calls[c].slept[i] = <<1000, 5000>>[i]
            /\ \A i, j \in 1..Len(calls[c].slept) :
                    i < j => calls[c].slept[i] < calls[c].slept[j]
            /\ calls[c].sends >= 1 => Len(calls[c].slept) = calls[c].sends - 1
            /\ calls[c].pc = "smsSleep" =>
                    /\ Len(calls[c].attempts) < 3
                    /\ Len(calls[c].slept) = Len(calls[c].attempts) - 1
                    /\ LogOf(c).retryCount = Len(calls[c].attempts)
                    /\ LogOf(c).errorMessage = calls[c].lastError
            /\ Len(calls[c].attempts) = 3 =>
                    calls[c].pc # "smsSleep" /\ Len(calls[c].slept) = 2

\* C13 witness: a send went through both suspensions and failed for the last time
C13_Witness ==
    \E c \in Calls :
        /\ ProviderFailedThrice(c) /\ calls[c].slept = <<1000, 5000>>
        /\ calls[c].outcome = "returned"

(***************************************************************************)
(* Properties of the preference evaluator                                  *)
(***************************************************************************)
\* a direct shouldSendNotification call has returned its decision
Decided(c) ==
    calls[c].kind = "should" /\ calls[c].decided /\ calls[c].outcome = "returned"

PrefsOf(c) == farmerNotificationPreferences[calls[c].farmerId]
Decision(c) == [sms |-> calls[c].shouldSendSms, push |-> calls[c].shouldSendPush]
Silent == [sms |-> FALSE, push |-> FALSE]

\* the toggle of a category, and the quiet-hours window, written out from the
\* specification of the evaluator
Toggle(p, category) ==
    IF category = "order" THEN p.orderUpdates
    ELSE IF category = "payment" THEN p.paymentAlerts
    ELSE p.educationalContent

InWindow(p, now) ==
    LET start == p.quietHoursStart[1] * 60 + p.quietHoursStart[2]
        end == p.quietHoursEnd[1] * 60 + p.quietHoursEnd[2]
    IN /\ p.quietHoursEnabled
       /\ IF start > end THEN now >= start \/ now < end
          ELSE start <= now /\ now < end

\* C14: shouldSendNotification returns {sms: false, push: false} whenever the level is
\* MUTE, for every isCritical, category, channel toggle and quiet-hours state.
C14_MuteSilencesAll ==
    \A c \in Calls :
        (Decided(c) /\ PrefsOf(c).notificationLevel = "MUTE") => Decision(c) = Silent

\* C14 witness: a critical notification of a farmer with both channels on was muted
C14_Witness ==
    \E c \in Calls :
        /\ Decided(c) /\ PrefsOf(c).notificationLevel = "MUTE"
        /\ calls[c].isCritical /\ PrefsOf(c).smsEnabled /\ PrefsOf(c).pushEnabled
        /\ Decision(c) = Silent

CriticalLevelTestCase(c) ==
    /\ Decided(c)
    /\ PrefsOf(c).notificationLevel = "CRITICAL"
    /\ PrefsOf(c).smsEnabled /\ PrefsOf(c).pushEnabled
    /\ ~PrefsOf(c).quietHoursEnabled
    /\ PrefsOf(c).orderUpdates /\ PrefsOf(c).paymentAlerts
    /\ PrefsOf(c).educationalContent
    /\ ~calls[c].isCritical /\ calls[c].category = "order"

C16_CriticalLevelKeepsPush ==
    \A c \in Calls :
        CriticalLevelTestCase(c) =>
            calls[c].shouldSendSms = FALSE /\ calls[c].shouldSendPush = TRUE

\* C17: with level ALL, a non-critical notification whose category toggle is false
\* gets {sms: false, push: false}; a critical notification is never blocked by a
\* false category toggle (it gets the decision of the channel toggles).
C17_CategoryGate ==
    \A c \in Calls :
        (Decided(c) /\ ~Toggle(PrefsOf(c), calls[c].category)) =>
            /\ (PrefsOf(c).notificationLevel = "ALL" /\ ~calls[c].isCritical) =>
                    Decision(c) = Silent
            /\ (PrefsOf(c).notificationLevel # "MUTE" /\ calls[c].isCritical) =>
                    Decision(c) = [sms |-> PrefsOf(c).smsEnabled,
                                   push |-> PrefsOf(c).pushEnabled]

\* C17 witness: a non-critical payment notification was blocked by paymentAlerts alone
C17_Witness ==
    \E c \in Calls :
        /\ Decided(c) /\ PrefsOf(c).notificationLevel = "ALL"
        /\ ~calls[c].isCritical /\ calls[c].category = "payment"
        /\ ~PrefsOf(c).paymentAlerts /\ PrefsOf(c).orderUpdates
        /\ PrefsOf(c).educationalContent /\ PrefsOf(c).pushEnabled
        /\ ~InWindow(PrefsOf(c), clock)
        /\ Decision(c) = Silent

\* C18: for every input not stopped by the MUTE, CRITICAL-level or category gates,
\* sms = smsEnabled AND isCritical and push = pushEnabled AND (NOT quietHoursActive OR
\* isCritical); hence sms is false for every non-critical notification.
C18_ChannelDecision ==
    \A c \in Calls :
        Decided(c) =>
            /\ (/\ PrefsOf(c).notificationLevel # "MUTE"
                /\ ~(PrefsOf(c).notificationLevel = "CRITICAL" /\ ~calls[c].isCritical)
                /\ ~(~Toggle(PrefsOf(c), calls[c].category) /\ ~calls[c].isCritical)) =>
                    /\ calls[c].shouldSendSms = (PrefsOf(c).smsEnabled /\ calls[c].isCritical)
                    /\ calls[c].shouldSendPush =
                            (PrefsOf(c).pushEnabled
                                /\ (~InWindow(PrefsOf(c), clock) \/ calls[c].isCritical))
            /\ ~calls[c].isCritical => calls[c].shouldSendSms = FALSE

\* C18 witness: an ungated non-critical notification with SMS enabled, outside quiet
\* hours, was decided push only
C18_Witness ==
    \E c \in Calls :
        /\ Decided(c) /\ PrefsOf(c).notificationLevel = "ALL" /\ ~calls[c].isCritical
        /\ Toggle(PrefsOf(c), calls[c].category)
        /\ PrefsOf(c).smsEnabled /\ PrefsOf(c).pushEnabled
        /\ ~InWindow(PrefsOf(c), clock)
        /\ Decision(c) = [sms |-> FALSE, push |-> TRUE]

\* C19: isQuietHoursActive returns false when quiet hours are disabled; otherwise, if
\* start > end, (now >= start OR now < end), else (start <= now < end). For the window
\* 22:00-06:00, 23:30 and 05:00 are active and 10:00 is not.
C19_QuietHoursWindow ==
    \A c \in Calls :
        (calls[c].kind = "quiet" /\ calls[c].outcome = "returned") =>
            /\ calls[c].ret = InWindow(PrefsOf(c), clock)
            /\ ~PrefsOf(c).quietHoursEnabled => calls[c].ret = FALSE
            /\ (/\ PrefsOf(c).quietHoursEnabled
                /\ PrefsOf(c).quietHoursStart = <<22, 0>>
                /\ PrefsOf(c).quietHoursEnd = <<6, 0>>) =>
                    /\ clock \in {1410, 300} => calls[c].ret = TRUE
                    /\ clock = 600 => calls[c].ret = FALSE

\* C19 witness: 05:00 was found inside the window 22:00-06:00
C19_Witness ==
    \E c \in Calls :
        /\ calls[c].kind = "quiet" /\ calls[c].outcome = "returned"
        /\ PrefsOf(c).quietHoursEnabled
        /\ PrefsOf(c).quietHoursStart = <<22, 0>> /\ PrefsOf(c).quietHoursEnd = <<6, 0>>
        /\ clock = 300 /\ calls[c].ret = TRUE

(***************************************************************************)
(* Quiet hours and the push channel                                        *)
(***************************************************************************)
\* the farmer's registered device tokens; in the router specification every
\* registered token is active when the call starts
RegisteredTokens(farmerId) == {t \in Tokens : deviceToken[<<farmerId, t>>] # "none"}

\* a sendNotification call made while the farmer's quiet hours are active
InQuietHours(c) ==
    IsSend(c) /\ PrefsOf(c) # NoPrefs /\ InWindow(PrefsOf(c), clock)

\* C20: while quiet hours are active, sendNotification for a critical notification
\* (pushEnabled, level not MUTE) invokes the push channel with bypassQuietHours = true
\* and a provider send is attempted for every active device token of the farmer; for
\* a non-critical notification no push provider send occurs during quiet hours.
C20_CriticalBypassesQuietHours ==
    \A c \in Calls :
        InQuietHours(c) =>
            /\ (/\ calls[c].type \in CRITICAL_TYPES \/ calls[c].forceSms
                /\ PrefsOf(c).pushEnabled /\ PrefsOf(c).notificationLevel # "MUTE"
                /\ calls[c].outcome = "returned") =>
                    /\ calls[c].pushInvoked /\ calls[c].bypassQuietHours
                    /\ DOMAIN calls[c].results = RegisteredTokens(calls[c].farmerId)
                    /\ calls[c].pending = {}
            /\ ~(calls[c].type \in CRITICAL_TYPES \/ calls[c].forceSms) =>
                    /\ calls[c].results = <<>>
                    /\ calls[c].tokens = {}
                    /\ calls[c].pc \notin {"pushTokens", "pushFanout", "pushPrune"}

\* C20 witness: at 23:30 a critical notification was pushed to both devices of the farmer
C20_Witness ==
    \E c \in Calls :
        /\ InQuietHours(c) /\ calls[c].outcome = "returned"
        /\ calls[c].type \in CRITICAL_TYPES /\ calls[c].bypassQuietHours
        /\ Cardinality(DOMAIN calls[c].results) = 2
        /\ calls[c].pushResult.successCount = 2

(***************************************************************************)
(* Properties of the push channel                                          *)
(***************************************************************************)
IsPush(c) == calls[c].kind = "push"
PushReturned(c) == IsPush(c) /\ calls[c].outcome = "returned"
NothingSent ==
    [success |-> TRUE, successCount |-> 0, failureCount |-> 0, invalidTokens |-> {}]
ActiveTokens(farmerId) == {t \in Tokens : deviceToken[<<farmerId, t>>] = "active"}
InvalidSignatures ==
    {"messaging/invalid-registration-token",
     "messaging/registration-token-not-registered",
     "messaging/invalid-argument"}

\* a sendToFarmer call without bypassQuietHours while the farmer's quiet hours are active
QuietSkipped(c) ==
    /\ IsPush(c) /\ ~calls[c].bypassQuietHours
    /\ PrefsOf(c) # NoPrefs /\ InWindow(PrefsOf(c), clock)

\* the token query of call c resolves in this step
TokensResolve(c) ==
    /\ IsPush(c) /\ calls[c].pc = "pushTokens"
    /\ calls'[c].pc # "pushTokens" /\ calls'[c].outcome # "raised"

\* C21: sendToFarmer without bypassQuietHours during quiet hours, and sendToFarmer for
\* a farmer with no active device token, both return {success: true, successCount: 0,
\* failureCount: 0, invalidTokens: []}, make no provider send and change no device token.
C21_SkippedPushIsTrivialSuccess ==
    /\ [](\A c \in Calls :
            /\ QuietSkipped(c) =>
                    /\ calls[c].results = <<>> /\ calls[c].tokens = {}
                    /\ calls[c].pc \notin {"pushTokens", "pushFanout", "pushPrune"}
            /\ (PushReturned(c) /\ calls[c].results = <<>>) =>
                    /\ calls[c].pushResult = NothingSent
                    /\ calls[c].ret = TRUE
            /\ (IsPush(c) /\ calls[c].pc = "pushPrune") => calls[c].results # <<>>)
    /\ [][/\ \A c \in Calls :
                (TokensResolve(c) /\ ActiveTokens(calls[c].farmerId) = {}) =>
                    /\ calls'[c].pushResult = NothingSent
                    /\ calls'[c].pc = "return"
                    /\ calls'[c].results = <<>>
                    /\ deviceToken' = deviceToken
          /\ deviceToken' # deviceToken =>
                \E c \in Calls : calls[c].pc = "pushPrune"]_vars

\* C21 witness: at 23:30 a push to f1, who has an active device, was skipped for quiet
\* hours and a bypassing push to f2, who has no device, returned the empty success
C21_Witness ==
    \E c1, c2 \in Calls :
        /\ QuietSkipped(c1) /\ PushReturned(c1)
        /\ ActiveTokens(calls[c1].farmerId) # {}
        /\ calls[c1].pushResult = NothingSent
        /\ PushReturned(c2) /\ calls[c2].bypassQuietHours
        /\ ActiveTokens(calls[c2].farmerId) = {}
        /\ calls[c2].pushResult = NothingSent /\ calls[c2].ret = TRUE

\* C22: with at least one active token and no quiet-hours skip, sendToFarmer makes one
\* provider send per active token, returns only after every send has settled,
\* successCount + failureCount is the number of active tokens, success is
\* successCount > 0, and a failed send never makes the call raise.
C22_FanOutCountsEveryToken ==
    /\ [](\A c \in Calls :
            (PushReturned(c) /\ calls[c].tokens # {}) =>
                LET r == calls[c].pushResult
                    good == {t \in calls[c].tokens : calls[c].results[t] = "ok"}
                IN /\ DOMAIN calls[c].results = calls[c].tokens
                   /\ calls[c].pending = {}
                   /\ r.successCount = Cardinality(good)
                   /\ r.successCount + r.failureCount = Cardinality(calls[c].tokens)
                   /\ r.success = (r.successCount > 0)
                   /\ calls[c].ret = r.success)
    /\ [][\A c \in Calls :
            /\ (TokensResolve(c) /\ ActiveTokens(calls[c].farmerId) # {}) =>
                    /\ calls'[c].tokens = ActiveTokens(calls[c].farmerId)
                    /\ calls'[c].pending = calls'[c].tokens
            /\ (IsPush(c) /\ calls'[c].results # calls[c].results) =>
                    \E t \in calls[c].pending :
                        /\ t \notin DOMAIN calls[c].results
                        /\ DOMAIN calls'[c].results = DOMAIN calls[c].results \cup {t}
                        /\ calls'[c].pending = calls[c].pending \ {t}
                        /\ calls'[c].outcome # "raised"
                        /\ calls'[c].pc \in {"pushFanout", "pushPrune", "return"}]_vars

\* C22 witness: a fan-out to two devices returned with one success and one failure
C22_Witness ==
    \E c \in Calls :
        /\ PushReturned(c) /\ Cardinality(calls[c].tokens) = 2
        /\ calls[c].pushResult.successCount = 1
        /\ calls[c].pushResult.failureCount = 1
        /\ calls[c].ret = TRUE

Issues(c, kind) == calls[c].kind = "none" /\ calls'[c].kind = kind

\* the defaults a first read writes, as the specification lists them
SpecifiedDefaults ==
    [smsEnabled |-> TRUE, pushEnabled |-> TRUE,
     quietHoursStart |-> <<22, 0>>, quietHoursEnd |-> <<6, 0>>,
     quietHoursEnabled |-> TRUE, notificationLevel |-> "ALL",
     orderUpdates |-> TRUE, paymentAlerts |-> TRUE, educationalContent |-> TRUE]

\* C26: the first read for a farmer without a preferences record creates the record
\* with the defaults; a record, once there, is never deleted, and only an explicit
\* update call changes its fields: reads and sendNotification leave it unchanged; a
\* read that has returned has left the farmer with a record.
C26_PreferencesLifecycle ==
    /\ [](\A c \in Calls :
            (calls[c].kind \in {"quiet", "send"} /\ calls[c].outcome = "returned") =>
                PrefsOf(c) # NoPrefs)
    /\ [][\A f \in Farmers :
            LET row == farmerNotificationPreferences[f]
                after == farmerNotificationPreferences'[f]
                updated == \E c \in Calls : Issues(c, "update") /\ calls'[c].farmerId = f
            IN /\ row # NoPrefs => after # NoPrefs
               /\ (row # NoPrefs /\ after # row) => updated
               /\ (row = NoPrefs /\ after # NoPrefs /\ ~updated) =>
                    /\ after = SpecifiedDefaults
                    /\ \E c \in Calls :
                        /\ calls[c].pc = "prefCreate" /\ calls[c].farmerId = f
                        /\ calls'[c].pc # "prefCreate"]_vars

\* C26 witness: a read created the defaults for a farmer and a later update switched
\* SMS off in that record
C26_Witness ==
    \E c1, c2 \in Calls :
        /\ calls[c1].kind = "quiet" /\ calls[c1].outcome = "returned"
        /\ calls[c2].kind = "update" /\ calls[c2].outcome = "returned"
        /\ c1 \in calls[c2].prior
        /\ calls[c2].farmerId = calls[c1].farmerId
        /\ calls[c2].input = [smsEnabled |-> FALSE]
        /\ PrefsOf(c1) = [SpecifiedDefaults EXCEPT !.smsEnabled = FALSE]

\* C27: registration is an upsert keyed by (farmerId, token): the registry holds one
\* record per key; a register that answers true leaves the record active, also
\* when it was deactivated before, and changes no other record; unregister and
\* provider-reported invalidity set records inactive and never delete one;
\* registering twice gives the registry that registering once gives.
C27_RegistrationIsUpsert ==
    /\ [](/\ DOMAIN deviceToken = Farmers \X Tokens
          /\ \A ft \in Farmers \X Tokens :
                /\ deviceToken[ft] \in {"none", "active", "inactive"}
                /\ upsert(upsert(deviceToken, ft[1], ft[2]), ft[1], ft[2]) =
                        upsert(deviceToken, ft[1], ft[2])
                /\ upsert(deviceToken, ft[1], ft[2])[ft] = "active")
    /\ [][/\ \A ft \in Farmers \X Tokens :
                /\ deviceToken[ft] # "none" => deviceToken'[ft] # "none"
                /\ (deviceToken[ft] = "none" /\ deviceToken'[ft] # "none") =>
                        \E c \in Calls : Issues(c, "register")
          /\ \A c \in Calls :
                LET key == <<calls'[c].farmerId, calls'[c].token>>
                    others == (Farmers \X Tokens) \ {key}
                IN /\ (Issues(c, "register") /\ calls'[c].ret) =>
                        /\ deviceToken'[key] = "active"
                        /\ \A ft \in others : deviceToken'[ft] = deviceToken[ft]
                        /\ deviceToken[key] = "active" => deviceToken' = deviceToken
                   /\ (Issues(c, "unregister") /\ calls'[c].ret) =>
                        /\ deviceToken'[key] =
                                IF deviceToken[key] = "none" THEN "none" ELSE "inactive"
                        /\ \A ft \in others : deviceToken'[ft] = deviceToken[ft]
                   /\ (calls[c].pc = "pushPrune" /\ calls'[c].pc # "pushPrune") =>
                        \A ft \in Farmers \X Tokens :
                            deviceToken'[ft] # deviceToken[ft] =>
                                deviceToken'[ft] = "inactive"]_vars

\* C27 witness: the deactivated token t2 of f1 was registered again and is active, and
\* the same registration repeated left the registry as it was
C27_Witness ==
    \E c1, c2 \in Calls :
        /\ c1 \in calls[c2].prior
        /\ calls[c1].kind = "register" /\ calls[c2].kind = "register"
        /\ calls[c1].ret /\ calls[c2].ret
        /\ calls[c1].farmerId = "f1" /\ calls[c1].token = "t2"
        /\ calls[c2].farmerId = "f1" /\ calls[c2].token = "t2"
        /\ deviceToken = [OneInactive EXCEPT ![<<"f1", "t2">>] = "active"]

\* C28: an in-app notification is removed only by a delete call of its owning farmer
\* (id and farmerId both matching) or by the retention cleanup, and the retention
\* cleanup removes only read notifications older than its cutoff, never an unread one.
C28_NotificationRemoval ==
    [][\A n \in farmerNotification :
        (\A m \in farmerNotification' : m.id # n.id) =>
            \E c \in Calls :
                \/ /\ Issues(c, "delete")
                   /\ calls'[c].id = n.id /\ calls'[c].farmerId = n.farmerId
                   /\ calls'[c].ret
                \/ /\ Issues(c, "deleteOlderThan")
                   /\ n.isRead /\ n.age > calls'[c].days]_vars

\* C28 witness: the cleanup with a cutoff of five days removed the two read rows and
\* kept the unread one, which is forty days old, and a delete of that row under
\* another farmer's id answered false and removed nothing
C28_Witness ==
    \E c1, c2 \in Calls :
        /\ calls[c1].kind = "deleteOlderThan" /\ calls[c1].days = 5
        /\ calls[c1].outcome = "returned" /\ calls[c1].count = 2
        /\ calls[c2].kind = "delete" /\ calls[c2].id = 2 /\ calls[c2].farmerId = "f2"
        /\ calls[c2].outcome = "returned" /\ ~calls[c2].ret
        /\ {n.id : n \in farmerNotification} = {2}
        /\ \A n \in farmerNotification : ~n.isRead /\ n.age = 40 /\ n.farmerId = "f1"

(***************************************************************************)
(* Properties of the templates                                             *)
(***************************************************************************)
Rendered(c) ==
    calls[c].kind \in {"substituteVariables", "buildMessage"} /\ Finished(c)

\* C29: in the rendered text every {{name}} whose name is in the variable set is
\* replaced by the string form of its value, every {{name}} whose name is absent from
\* the variable set is replaced by the empty string, and no placeholder is left.
C29_NoPlaceholderSurvives ==
    \A c \in Calls :
        Rendered(c) =>
            /\ Len(calls[c].message) = Len(calls[c].template)
            /\ \A i \in 1..Len(calls[c].template) :
                LET part == calls[c].template[i]
                    out == calls[c].message[i]
                IN IF ~IsPlaceholder(part) THEN out = part
                   ELSE /\ ~IsPlaceholder(out)
                        /\ part.placeholder \notin DOMAIN calls[c].variables =>
                                out = Text("")
                        /\ (/\ part.placeholder \in DOMAIN calls[c].variables
                            /\ calls[c].variables[part.placeholder] = String("Tomatoes"))
                                => out = Text("Tomatoes")
                        /\ (/\ part.placeholder \in DOMAIN calls[c].variables
                            /\ calls[c].variables[part.placeholder] = Number(50))
                                => out = Text("50")

\* the language the specification gives for each code
SpecifiedLanguage(code) ==
    IF code \in {<<"k", "n">>, <<"K", "N">>, <<"k", "n", "-", "I", "N">>, <<"k", "a">>}
    THEN "KANNADA"
    ELSE IF code \in {<<"h", "i">>, <<"h", "i", "-", "I", "N">>} THEN "HINDI"
    ELSE IF code = <<"t", "a">> THEN "TAMIL"
    ELSE IF code = <<"t", "e">> THEN "TELUGU"
    ELSE "ENGLISH"

\* C30: for every code the template engine's parseLanguage and the SMS channel's
\* language selection both give the language of the lower-cased first two characters:
\* kn and ka KANNADA, hi HINDI, ta TAMIL, te TELUGU, anything else ENGLISH.
C30_SameLanguageInEveryChannel ==
    \A c \in Calls :
        (calls[c].kind \in {"parseLanguage", "SmsService.parseLanguage"} /\ Finished(c))
            => calls[c].language = SpecifiedLanguage(calls[c].code)

\* the variant the specification selects from a table of variants
SelectedVariant(table, language) ==
    IF language \in {"ENGLISH", "KANNADA", "HINDI", "TAMIL", "TELUGU"}
    THEN table[language] ELSE table["ENGLISH"]

\* C31: for every template key and language the chosen template is the variant of
\* that language when there is one and the English variant otherwise; for a key
\* without a template family the SMS channel returns the generic text that embeds
\* the key and does not raise.
C31_TemplateSelection ==
    \A c \in Calls :
        /\ (calls[c].kind = "SmsService.getTemplate" /\ Finished(c)) =>
                /\ calls[c].outcome = "returned"
                /\ calls[c].message =
                        IF calls[c].type \in {"ORDER_MATCHED", "PAYMENT_RECEIVED",
                                              "MATCH_EXPIRING", "ORDER_CANCELLED",
                                              "QUALITY_DISPUTE"}
                        THEN SelectedVariant(smsTemplates[calls[c].type], calls[c].lang)
                        ELSE <<Text("CropFresh: Notification for "), Text(calls[c].type)>>
        /\ (/\ calls[c].kind = "getTemplate" /\ Finished(c)
            /\ calls[c].type = "DROP_POINT_ASSIGNMENT") =>
                calls[c].message = SelectedVariant(ASSIGNMENT_TEMPLATES, calls[c].lang)
        /\ (/\ calls[c].kind = "getTemplate" /\ Finished(c)
            /\ calls[c].type = "DROP_POINT_CHANGE") =>
                calls[c].message = SelectedVariant(CHANGE_TEMPLATES, calls[c].lang)

\* C31 witness: for the language fr and the key DROP_POINT_CHANGE, which has no SMS
\* family, the SMS channel returned the generic text and the drop-point template
\* engine chose the English variant
C31_Witness ==
    \E c1, c2 \in Calls :
        /\ calls[c1].kind = "SmsService.getTemplate" /\ Finished(c1)
        /\ calls[c1].type = "DROP_POINT_CHANGE" /\ calls[c1].lang = "fr"
        /\ calls[c1].message =
                <<Text("CropFresh: Notification for "), Text("DROP_POINT_CHANGE")>>
        /\ calls[c2].kind = "getTemplate" /\ Finished(c2)
        /\ calls[c2].message[1] = Text("ENGLISH")

\* C32: markAsRead(id, farmerId) sets isRead on the notification with that id when it
\* belongs to farmerId and reports success, leaving every other notification as it
\* was; when the id does not exist or belongs to another farmer it changes nothing
\* and reports failure.
C32_MarkAsReadFrame ==
    [][\A c \in Calls :
        (Issues(c, "markAsRead") /\ calls'[c].outcome = "returned") =>
            LET id == calls'[c].id
                owner == calls'[c].farmerId
                hit == {n \in farmerNotification : n.id = id /\ n.farmerId = owner}
            IN /\ calls'[c].ret = (hit # {})
               /\ farmerNotification' =
                    (farmerNotification \ hit) \cup
                        {[n EXCEPT !.isRead = TRUE] : n \in hit}
               /\ hit = {} => farmerNotification' = farmerNotification
               /\ \A n \in farmerNotification :
                    (n.id # id \/ n.farmerId # owner) => n \in farmerNotification']_vars

\* C32 witness: marking the unread row 2 under farmer f2 failed and changed nothing;
\* marking it under its owner f1 then succeeded, and the rows 1 and 3 are as stored
C32_Witness ==
    \E c1, c2 \in Calls :
        /\ c1 \in calls[c2].prior
        /\ calls[c1].kind = "markAsRead" /\ calls[c1].id = 2
        /\ calls[c1].farmerId = "f2" /\ calls[c1].outcome = "returned" /\ ~calls[c1].ret
        /\ calls[c2].kind = "markAsRead" /\ calls[c2].id = 2
        /\ calls[c2].farmerId = "f1" /\ calls[c2].outcome = "returned" /\ calls[c2].ret
        /\ \A n \in farmerNotification : n.id = 2 => n.isRead
        /\ {n \in farmerNotification : n.id # 2} = {n \in StoredRows : n.id # 2}

(***************************************************************************)
(* Properties of the quota under concurrent and sequential sends           *)
(***************************************************************************)
\* two sendSms calls of one farmer whose executions overlapped in time
Overlapped(c1, c2) ==
    /\ c1 # c2 /\ IsSms(c1) /\ IsSms(c2)
    /\ calls[c1].farmerId = calls[c2].farmerId
    /\ c1 \notin calls[c2].prior /\ c2 \notin calls[c1].prior

\* C33: the quota check looks at the SENT and DELIVERED logs only, so a sendSms passes
\* it with 19 counted logs also while another send of the farmer is in flight with
\* its log still PENDING; the count goes above 20 only through two overlapping sends
\* that both passed the check, and from 19 counted logs both can end as SENT: 21.
C33_QuotaRace ==
    /\ [](\A f \in Farmers :
            Cardinality(SentToday(f)) > 20 =>
                \E c1, c2 \in Calls :
                    /\ Overlapped(c1, c2) /\ calls[c1].farmerId = f
                    /\ calls[c1].quotaCount \in 0..19 /\ calls[c2].quotaCount \in 0..19
                    /\ calls[c1].logId # 0 /\ calls[c2].logId # 0)
    /\ [][\A c \in Calls :
            (/\ IsSms(c) /\ calls[c].pc = "smsQuota"
             /\ calls'[c].pc # "smsQuota" /\ calls'[c].raisedBy = "-"
             /\ Cardinality(SentToday(calls[c].farmerId)) <= 19) =>
                calls'[c].pc = "smsCreate"]_vars

\* C33 witness: from 19 counted logs two overlapping sends of f1 both ended as SENT
\* and the farmer has 21 counted logs
C33_Witness ==
    \E c1, c2 \in Calls :
        /\ Overlapped(c1, c2) /\ calls[c1].farmerId = "f1"
        /\ calls[c1].quotaCount = 19 /\ calls[c2].quotaCount = 19
        /\ calls[c1].outcome = "returned" /\ calls[c1].success
        /\ calls[c2].outcome = "returned" /\ calls[c2].success
        /\ calls[c1].logId # 0 /\ calls[c2].logId # 0
        /\ LogOf(c1).status = "SENT" /\ LogOf(c2).status = "SENT"
        /\ Cardinality(SentToday("f1")) = 21

\* C34: when the sendSms calls of a farmer do not overlap, the farmer's SENT or
\* DELIVERED logs of the day never number more than 20, whatever the sends do; a
\* FAILED or PENDING log does not count.
C34_SequentialQuotaHolds ==
    \A f \in Farmers :
        (\A c1, c2 \in Calls : calls[c1].farmerId = f => ~Overlapped(c1, c2)) =>
            /\ Cardinality(SentToday(f)) <= 20
            /\ \A c \in Calls :
                 (/\ IsSms(c) /\ calls[c].farmerId = f /\ calls[c].quotaCount >= 0
                  /\ \A c2 \in Calls : c \notin calls[c2].prior) =>
                     Cardinality(SentToday(f)) =
                         calls[c].quotaCount +
                         (IF calls[c].logId # 0 /\ LogOf(c).status = "SENT" THEN 1 ELSE 0)

\* C34 witness: from 19 counted logs a send of f1 failed three times, leaving a FAILED
\* log and the count at 19; the next send passed the check and was sent: 20
C34_Witness ==
    \E c1, c2 \in Calls :
        /\ IsSms(c1) /\ IsSms(c2) /\ c1 \in calls[c2].prior
        /\ calls[c1].farmerId = "f1" /\ calls[c2].farmerId = "f1"
        /\ calls[c1].logId # 0 /\ calls[c2].logId # 0
        /\ calls[c1].outcome = "returned" /\ LogOf(c1).status = "FAILED"
        /\ calls[c2].quotaCount = 19
        /\ calls[c2].outcome = "returned" /\ LogOf(c2).status = "SENT"
        /\ Cardinality(SentToday("f1")) = 20

(***************************************************************************)
(* Properties of the processed-event cache                                 *)
(***************************************************************************)
\* C35: an eventId is marked processed only by a dispatch that processed it with
\* success: the step in which a dispatch of an event not yet processed returns false
\* (the Router raised, or answered success = false) leaves the processed set as it
\* was, so that a redelivery is processed again.
C35_MarkedOnlyOnSuccess ==
    [][\A c \in Calls :
        (/\ calls[c].kind = "dispatch" /\ ~Finished(c)
         /\ calls'[c].pc = "done" /\ calls'[c].rejected = "no"
         /\ calls'[c].ret = FALSE) =>
            processedEvents' = processedEvents]_vars

\* C36: the in-memory processed set is bounded: after every markEventProcessed it
\* holds at most 10000 eventIds; when an insertion takes it above the cap, exactly
\* the 1000 earliest-inserted eventIds are removed, and the eventId just marked is
\* still in the set; below the cap nothing is removed.
C36_CacheBounded ==
    /\ [](Len(processedEvents) <= MAX_CACHE_SIZE)
    /\ [][\A e \in CacheInputs :
            (e \notin Range(processedEvents) /\ e \in Range(processedEvents')) =>
                LET added == Append(processedEvents, e)
                IN /\ processedEvents'[Len(processedEvents')] = e
                   /\ Len(added) <= MAX_CACHE_SIZE => processedEvents' = added
                   /\ Len(added) > MAX_CACHE_SIZE =>
                        /\ Len(processedEvents') = Len(added) - 1000
                        /\ \A i \in 1..Len(processedEvents') :
                             processedEvents'[i] = added[i + 1000]]_vars

\* C36 witness: a full cache took a new eventId: the 1000 oldest entries are gone,
\* 9001 remain and the new eventId is the last of them
C36_Witness ==
    /\ Len(processedEvents) = 9001
    /\ processedEvents[1] = 2001
    /\ processedEvents[9001] \in 1..FreshEvents

(***************************************************************************)
(* Properties of sendNotification across farmers and of its result         *)
(***************************************************************************)
\* the records of a farmer
TokensOf(registry, farmerId) == [t \in Tokens |-> registry[<<farmerId, t>>]]
LogsOf(logs, farmerId) == {i \in 1..Len(logs) : logs[i].farmerId = farmerId}

\* C37: farmer isolation: a step of sendNotification for farmer A, its push fan-out
\* and invalid-token pruning included, never changes a device-token record, the
\* preferences record, an SMS log or an in-app notification of another farmer B,
\* also when A and B registered the same token string.
C37_FarmerIsolation ==
    [][\A c \in Calls :
        (IsSend(c) /\ calls'[c] # calls[c]) =>
            \A b \in Farmers \ {calls[c].farmerId} :
                /\ TokensOf(deviceToken', b) = TokensOf(deviceToken, b)
                /\ farmerNotificationPreferences'[b] = farmerNotificationPreferences[b]
                /\ LogsOf(smsDeliveryLog', b) = LogsOf(smsDeliveryLog, b)
                /\ \A i \in LogsOf(smsDeliveryLog, b) : smsDeliveryLog'[i] = smsDeliveryLog[i]
                /\ {n \in farmerNotification' : n.farmerId = b} =
                   {n \in farmerNotification : n.farmerId = b}]_vars

\* C38: in every NotificationResult returned by sendNotification, pushSuccess = true
\* implies pushSuccessCount >= 1.
C38_PushSuccessHasDelivery ==
    \A c \in Calls :
        (IsSend(c) /\ calls[c].outcome = "returned" /\ calls[c].pushResult.success) =>
            calls[c].pushResult.successCount >= 1

(***************************************************************************)
(* Properties of the delivery statistics                                   *)
(***************************************************************************)
\* C39: getDeliveryStats agrees with the quota enforcement: at the moment its count
\* of the day is taken, remaining is 0 exactly when a sendSms of the farmer would be
\* rejected for quota, and remaining is 20 minus the number of logs that count
\* toward the quota.
C39_StatsAgreeWithQuota ==
    [][\A c \in Calls :
        (/\ calls[c].kind = "stats" /\ calls[c].stats.today = -1
         /\ calls'[c].stats.today # -1) =>
            /\ (Remaining(calls'[c].stats.today) = 0) = checkQuota(calls[c].farmerId)
            /\ Remaining(calls'[c].stats.today) = 20 - QuotaCount(calls[c].farmerId)]_vars

(***************************************************************************)
(* Termination of sendSms                                                  *)
(***************************************************************************)
\* C40: provided every provider and storage call completes, every sendSms call
\* eventually ends, after at most 3 provider attempts and at most 2 backoff
\* suspensions; it ends by returning its result unless a storage call outside the
\* retry loop's try block was rejected.
C40_SendSmsTerminates ==
    /\ \A c \in Calls : IsSms(c) ~> Finished(c)
    /\ [](\A c \in Calls :
            IsSms(c) =>
                /\ calls[c].sends <= 3 /\ Len(calls[c].attempts) <= 3
                /\ Len(calls[c].slept) <= 2
                /\ (Finished(c) /\ calls[c].raisedBy = "-") => calls[c].outcome = "returned")

\* C40 witness: a send returned after three provider attempts and two backoffs
C40_Witness ==
    \E c \in Calls :
        /\ IsSms(c) /\ calls[c].outcome = "returned"
        /\ calls[c].sends = 3 /\ Len(calls[c].attempts) = 3 /\ Len(calls[c].slept) = 2

====
